---- MODULE Spec2Model ----
(***************************************************************************)
(* Governance core of servicenow-devtools-mcp: the policy engine           *)
(* (policy.py), and the workflow state stores (state.py).                  *)
(*                                                                         *)
(* Python strings that the code inspects character by character (query    *)
(* filters, record field names) are sequences of one-character strings.    *)
(* Table names, tags and tokens are only ever compared for equality and    *)
(* are TLA+ strings.                                                       *)
(***************************************************************************)
EXTENDS Integers, Sequences, FiniteSets, TLC

VARIABLES settings,       \* the Settings object handed to the policy engine
          pcall,          \* the last policy-engine call: arguments and outcome
          preview_store,  \* PreviewTokenStore: [ttl, store]
          now,            \* the value time.monotonic() returns
          uuids,          \* the tokens uuid.uuid4() has produced so far
          tcall,          \* the last PreviewTokenStore call: arguments and outcome
          thist,          \* per token: what create stored and what callers observed
          seed_tracker,   \* SeededRecordTracker: tag -> list of entries
          scall,          \* the last SeededRecordTracker call
          shist,          \* per tag: the track calls made since the last remove
          icall,          \* the last investigate_run / investigate_explain call
          dev,            \* per request: the developer tool call it is handling
          remote          \* the calls the developer tools made on ServiceNowClient

policyVars == <<settings, pcall>>
tokenVars == <<preview_store, now, uuids, tcall, thist>>
trackerVars == <<seed_tracker, scall, shist>>
toolVars == <<icall, dev, remote>>
vars == <<settings, pcall, preview_store, now, uuids, tcall, thist,
          seed_tracker, scall, shist, icall, dev, remote>>

(***************************************************************************)
(* Bounds of the model.                                                    *)
(***************************************************************************)
MaxRowBound == 2      \* settings.max_row_limit ranges over 0..MaxRowBound and the default
MaxFields == 2        \* a record passed to mask_sensitive_fields has at most this many fields
MaxTTL == 2           \* ttl_seconds ranges over 0..MaxTTL
MaxTime == 3          \* time.monotonic() ranges over 0..MaxTime
MaxTokens == 2        \* number of tokens uuid4 can produce
MaxEntries == 2       \* number of entries a tag's ledger can hold
MaxRequests == 3      \* number of developer tool calls in flight at once
MaxAcls == 2          \* number of ACL records a sys_security_acl query returns at most
MaxLogs == 4          \* number of syslog entries a query returns at most

(***************************************************************************)
(* Python values.                                                          *)
(***************************************************************************)
None == [none |-> TRUE]
Some(v) == [none |-> FALSE, v |-> v]

\* needle in haystack, for Python str: a contiguous run of equal characters
Contains(haystack, needle) ==
    \E i \in 0..(Len(haystack) - Len(needle)) :
        \A j \in 1..Len(needle) : haystack[i + j] = needle[j]

UpperLetters == <<"A","B","C","D","E","F","G","H","I","J","K","L","M",
                  "N","O","P","Q","R","S","T","U","V","W","X","Y","Z">>
LowerLetters == <<"a","b","c","d","e","f","g","h","i","j","k","l","m",
                  "n","o","p","q","r","s","t","u","v","w","x","y","z">>

\* re.IGNORECASE on the ASCII letters: both sides are compared case-folded
FoldChar(c) ==
    IF \E i \in 1..26 : UpperLetters[i] = c
    THEN LowerLetters[CHOOSE i \in 1..26 : UpperLetters[i] = c]
    ELSE c

Fold(s) == [i \in 1..Len(s) |-> FoldChar(s[i])]

\* pattern.search(text) for a pattern of literal characters compiled with re.IGNORECASE
RegexSearchIgnoreCase(pattern, text) == Contains(Fold(text), Fold(pattern))

(***************************************************************************)
(* policy.py: the static rule tables.                                      *)
(***************************************************************************)
DENIED_TABLES ==
    { "sys_user_has_password", "oauth_credential", "oauth_entity",
      "sys_certificate", "sys_ssh_key", "sys_credentials",
      "discovery_credentials", "sys_user_token" }

SENSITIVE_PATTERNS ==
    << <<"p","a","s","s","w","o","r","d">>,
       <<"t","o","k","e","n">>,
       <<"s","e","c","r","e","t">>,
       <<"c","r","e","d","e","n","t","i","a","l">>,
       <<"a","p","i","_","k","e","y">>,
       <<"p","r","i","v","a","t","e","_","k","e","y">> >>

MASK_VALUE == [type |-> "str", repr |-> "***MASKED***"]

DATE_FIELD_PATTERNS ==
    << <<"s","y","s","_","c","r","e","a","t","e","d","_","o","n">>,
       <<"s","y","s","_","u","p","d","a","t","e","d","_","o","n">>,
       <<"o","p","e","n","e","d","_","a","t">>,
       <<"c","l","o","s","e","d","_","a","t">>,
       <<"s","y","s","_","r","e","c","o","r","d","e","d","_","a","t">> >>

(***************************************************************************)
(* config.py: Settings.                                                    *)
(***************************************************************************)
DEFAULT_MAX_ROW_LIMIT == 100

DEFAULT_LARGE_TABLES == {"syslog", "sys_audit", "sys_log_transaction", "sys_email_log"}

is_production(s) == s.servicenow_env = "prod"

\* The Settings objects the engine is handed: the environment name, the row
\* cap and the large-table list all come from the process environment.
SettingsSpace ==
    [ servicenow_env : {"dev", "prod"},
      max_row_limit : (0..MaxRowBound) \cup {DEFAULT_MAX_ROW_LIMIT},
      large_table_names : { DEFAULT_LARGE_TABLES,
                            {},
                            {"syslog", "incident", "sys_user_token"} } ]

(***************************************************************************)
(* policy.py: the decision functions.  A function that can raise returns   *)
(* [raised, ret]: raised is "" or the name of the exception class.         *)
(***************************************************************************)
Returned(v) == [raised |-> "", ret |-> v]
Raised(e) == [raised |-> e, ret |-> None]

check_table_access_no_deny(table) == Returned(None)

check_table_access(table) ==
    IF table \in DENIED_TABLES THEN Raised("PolicyError") ELSE Returned(None)

is_sensitive_field_case_sensitive(field_name) ==
    \E i \in 1..Len(SENSITIVE_PATTERNS) : Contains(field_name, SENSITIVE_PATTERNS[i])

is_sensitive_field(field_name) ==
    \E i \in 1..Len(SENSITIVE_PATTERNS) :
        RegexSearchIgnoreCase(SENSITIVE_PATTERNS[i], field_name)

\* faulty variant: masks the caller's dict in place instead of a copy
mask_sensitive_fields_in_place(record) ==
    LET masked == [key \in DOMAIN record |->
                      IF is_sensitive_field(key) THEN MASK_VALUE ELSE record[key]]
    IN  [record |-> masked, ret |-> masked]

\* Returns [record, ret]: the caller's dict after the call, and the returned dict.
mask_sensitive_fields(record) ==
    LET copy == record     \* masked = dict(record): a new dict with the same items
        masked == [key \in DOMAIN copy |->
                      IF is_sensitive_field(key) THEN MASK_VALUE ELSE copy[key]]
    IN  [record |-> record, ret |-> masked]

has_date_filter(query) ==
    \E i \in 1..Len(DATE_FIELD_PATTERNS) : Contains(query, DATE_FIELD_PATTERNS[i])

\* faulty variant: the cap is applied only when no limit is given
enforce_query_safety_uncapped(table, query, limit, s) ==
    LET access == check_table_access(table)
        effective_limit == IF limit.none THEN s.max_row_limit ELSE limit.v
    IN  IF access.raised # "" THEN access
        ELSE IF table \in s.large_table_names /\ ~has_date_filter(query)
             THEN Raised("QuerySafetyError")
             ELSE Returned([limit |-> effective_limit])

\* faulty variant: the date-filter requirement is applied to every table
enforce_query_safety_all_tables(table, query, limit, s) ==
    LET access == check_table_access(table)
        effective_limit == IF limit.none \/ limit.v > s.max_row_limit
                           THEN s.max_row_limit ELSE limit.v
    IN  IF access.raised # "" THEN access
        ELSE IF ~has_date_filter(query)
             THEN Raised("QuerySafetyError")
             ELSE Returned([limit |-> effective_limit])

enforce_query_safety(table, query, limit, s) ==
    LET access == check_table_access(table)
        effective_limit == IF limit.none \/ limit.v > s.max_row_limit
                           THEN s.max_row_limit ELSE limit.v
    IN  IF access.raised # "" THEN access
        ELSE IF table \in s.large_table_names /\ ~has_date_filter(query)
             THEN Raised("QuerySafetyError")
             ELSE Returned([limit |-> effective_limit])

\* faulty variant: an override lifts every restriction, the deny list included
can_write_override_first(table, s, override) ==
    IF override THEN TRUE
    ELSE IF table \in DENIED_TABLES THEN FALSE
    ELSE IF is_production(s) THEN FALSE
    ELSE TRUE

\* faulty variant: the deny list is not consulted, only the environment
can_write_skips_deny_list(table, s, override) == ~(is_production(s) /\ ~override)

\* faulty variant: only the deny list is consulted, the environment is ignored
can_write_ignores_production(table, s, override) == table \notin DENIED_TABLES

can_write(table, s, override) ==
    IF table \in DENIED_TABLES THEN FALSE
    ELSE IF is_production(s) /\ ~override THEN FALSE
    ELSE TRUE

(***************************************************************************)
(* Inputs of the policy calls.                                             *)
(***************************************************************************)
\* deny-listed names, ordinary names, and names that differ from a
\* deny-listed one by case, by a prefix or by a suffix
Tables ==
    DENIED_TABLES \cup
    { "syslog", "sys_audit", "incident", "sys_user_token2", "oauth", "SYS_SSH_KEY" }

QueryHeads == { <<>>, <<"a","c","t","i","v","e","=","t","r","u","e","^">> }

QueryCores ==
    { DATE_FIELD_PATTERNS[i] : i \in 1..Len(DATE_FIELD_PATTERNS) } \cup
    { <<>>,
      <<"l","e","v","e","l","=","e","r","r","o","r">>,
      <<"S","Y","S","_","C","R","E","A","T","E","D","_","O","N">>,
      <<"o","p","e","n","e","d","_","a">>,
      <<"c","l","o","s","e","d"," ","a","t">> }

QueryTails == { <<>>, <<">","=","2","0","2","4">> }

Queries == { h \o c \o t : h \in QueryHeads, c \in QueryCores, t \in QueryTails }

Limits ==
    {None} \cup
    { Some(n) : n \in (-1..(MaxRowBound + 1)) \cup
                      { DEFAULT_MAX_ROW_LIMIT, DEFAULT_MAX_ROW_LIMIT + 1 } }

FieldNames ==
    { <<"p","a","s","s","w","o","r","d">>,
      <<"u","s","e","r","_","P","A","S","S","W","O","R","D">>,
      <<"c","l","i","e","n","t","_","s","e","c","r","e","t">>,
      <<"u","_","T","o","k","e","n","_","i","d">>,
      <<"c","r","e","d","e","n","t","i","a","l","s">>,
      <<"A","P","I","_","K","e","y">>,
      <<"p","r","i","v","a","t","e","_","k","e","y">>,
      <<"a","p","i","-","k","e","y">>,
      <<"p","a","s","s","_","w","o","r","d">>,
      <<"n","a","m","e">> }

FieldValues ==
    { [type |-> "str", repr |-> "secret123"],
      [type |-> "int", repr |-> "42"],
      [type |-> "NoneType", repr |-> "None"] }

Records ==
    UNION { [keys -> FieldValues] :
              keys \in { k \in SUBSET FieldNames : Cardinality(k) <= MaxFields } }

NoArgs == [table |-> "", query |-> <<>>, limit |-> None, override |-> FALSE,
           record |-> <<>>]

(***************************************************************************)
(* The policy engine as a state machine.  The functions are pure, so a      *)
(* behaviour is one call: the inputs are drawn and the function applied.   *)
(***************************************************************************)
PolicyInit ==
    /\ settings \in SettingsSpace
    /\ pcall = [fn |-> "none", args |-> NoArgs, out |-> Returned(None),
                record_after |-> <<>>]

CallCheckTableAccess ==
    /\ pcall.fn = "none"
    /\ \E table \in Tables :
        /\ pcall' = [fn |-> "check_table_access",
                     args |-> [NoArgs EXCEPT !.table = table],
                     out |-> check_table_access(table),
                     record_after |-> <<>>]
        /\ UNCHANGED <<settings, tokenVars, trackerVars, toolVars>>

CallEnforceQuerySafety ==
    /\ pcall.fn = "none"
    /\ \E table \in Tables, query \in Queries, limit \in Limits :
        /\ pcall' = [fn |-> "enforce_query_safety",
                     args |-> [NoArgs EXCEPT !.table = table, !.query = query,
                                             !.limit = limit],
                     out |-> enforce_query_safety(table, query, limit, settings),
                     record_after |-> <<>>]
        /\ UNCHANGED <<settings, tokenVars, trackerVars, toolVars>>

CallCanWrite ==
    /\ pcall.fn = "none"
    /\ \E table \in Tables, override \in BOOLEAN :
        /\ pcall' = [fn |-> "can_write",
                     args |-> [NoArgs EXCEPT !.table = table, !.override = override],
                     out |-> Returned(can_write(table, settings, override)),
                     record_after |-> <<>>]
        /\ UNCHANGED <<settings, tokenVars, trackerVars, toolVars>>

CallMaskSensitiveFields ==
    /\ pcall.fn = "none"
    /\ \E record \in Records :
        LET res == mask_sensitive_fields(record)
        IN  /\ pcall' = [fn |-> "mask_sensitive_fields",
                         args |-> [NoArgs EXCEPT !.record = record],
                         out |-> Returned(res.ret),
                         record_after |-> res.record]
            /\ UNCHANGED <<settings, tokenVars, trackerVars, toolVars>>

(***************************************************************************)
(* state.py: PreviewTokenStore.  A method is an operator from the object   *)
(* (self = [ttl, store]), its arguments and the clock reading to           *)
(* [self, ret]: the object after the call and the returned value.          *)
(* The tools call these methods from coroutines on one event loop and the  *)
(* methods contain no await, so a call is one atomic step.                 *)
(***************************************************************************)
PreviewTokenStore(ttl_seconds) == [ttl |-> ttl_seconds, store |-> <<>>]

\* dict item assignment and deletion
DictSet(dict, key, value) ==
    [k \in DOMAIN dict \cup {key} |-> IF k = key THEN value ELSE dict[k]]
DictDel(dict, key) == [k \in DOMAIN dict \ {key} |-> dict[k]]

create(self, payload, token, monotonic) ==
    [self |-> [self EXCEPT !.store =
                  DictSet(self.store, token,
                          [payload |-> payload, created_at |-> monotonic])],
     ret |-> token]

is_expired(self, entry, monotonic) == (monotonic - entry.created_at) > self.ttl

\* faulty variant: get forgets the TTL check
get_no_expiry(self, token, monotonic) ==
    IF token \notin DOMAIN self.store THEN [self |-> self, ret |-> None]
    ELSE [self |-> self, ret |-> self.store[token].payload]

\* faulty variant: get removes the token it returns, as consume does
get_pops(self, token, monotonic) ==
    IF token \notin DOMAIN self.store THEN [self |-> self, ret |-> None]
    ELSE IF is_expired(self, self.store[token], monotonic)
         THEN [self |-> [self EXCEPT !.store = DictDel(self.store, token)], ret |-> None]
         ELSE [self |-> [self EXCEPT !.store = DictDel(self.store, token)],
               ret |-> self.store[token].payload]

get(self, token, monotonic) ==
    IF token \notin DOMAIN self.store THEN [self |-> self, ret |-> None]
    ELSE IF is_expired(self, self.store[token], monotonic)
         THEN [self |-> [self EXCEPT !.store = DictDel(self.store, token)], ret |-> None]
         ELSE [self |-> self, ret |-> self.store[token].payload]

\* faulty variant: consume returns the payload without removing the token
consume_keeps(self, token, monotonic) ==
    IF token \notin DOMAIN self.store THEN [self |-> self, ret |-> None]
    ELSE IF is_expired(self, self.store[token], monotonic)
         THEN [self |-> [self EXCEPT !.store = DictDel(self.store, token)], ret |-> None]
         ELSE [self |-> self, ret |-> self.store[token].payload]

\* faulty variant: consume forgets the TTL check
consume_no_expiry(self, token, monotonic) ==
    IF token \notin DOMAIN self.store THEN [self |-> self, ret |-> None]
    ELSE [self |-> [self EXCEPT !.store = DictDel(self.store, token)],
          ret |-> self.store[token].payload]

consume(self, token, monotonic) ==
    IF token \notin DOMAIN self.store THEN [self |-> self, ret |-> None]
    ELSE IF is_expired(self, self.store[token], monotonic)
         THEN [self |-> [self EXCEPT !.store = DictDel(self.store, token)], ret |-> None]
         ELSE [self |-> [self EXCEPT !.store = DictDel(self.store, token)],
               ret |-> self.store[token].payload]

(***************************************************************************)
(* Inputs of the token store.                                              *)
(***************************************************************************)
\* uuid.uuid4() draws a 122-bit random value; it is modelled as a value not
\* drawn before.  0 stands for a string that was never a token.
Uuids == 1..MaxTokens

Payloads ==
    { [table |-> "incident", sys_id |-> "abc", changes |-> "state=2"],
      [table |-> "problem", sys_id |-> "def", changes |-> "active=false"] }

\* A call as its caller sees it: the method, the token and the returned
\* value; what had been seen of the token before the call (before, peeked)
\* and the payload create was given for it (created); whether the token's
\* age, counted from its create call, exceeded the TTL when the call was made
\* (overdue); whether the call found the entry in the dict older than the TTL.
NoTokenCall == [op |-> "none", token |-> 0, ret |-> None, overdue |-> FALSE,
                before |-> "unknown", peeked |-> FALSE, created |-> None,
                found_expired |-> FALSE]

\* What the callers have seen of a token.  While no call has consumed it or
\* found it expired: the payload and the time create was given, and whether
\* a get has returned the payload.  Afterwards: which of the two happened.
ActiveToken(payload, monotonic) ==
    [state |-> "active", payload |-> payload, created_at |-> monotonic,
     peeked |-> FALSE]
ConsumedToken == [state |-> "consumed"]
ExpiredToken == [state |-> "expired"]

TokensInit ==
    /\ preview_store \in { PreviewTokenStore(ttl) : ttl \in 0..MaxTTL }
    /\ now = 0
    /\ uuids = {}
    /\ tcall = NoTokenCall
    /\ thist = <<>>

TokensIdle ==
    /\ preview_store = PreviewTokenStore(0)
    /\ now = 0
    /\ uuids = {}
    /\ tcall = NoTokenCall
    /\ thist = <<>>

Before(token) == IF token \in uuids THEN thist[token].state ELSE "unknown"

Overdue(token) ==
    /\ token \in uuids
    /\ thist[token].state = "active"
    /\ (now - thist[token].created_at) > preview_store.ttl

\* a get or consume call finds the entry in the dict, older than the TTL
FoundExpired(token) ==
    /\ token \in DOMAIN preview_store.store
    /\ (now - preview_store.store[token].created_at) > preview_store.ttl

Observe(token, op, ret) ==
    IF token \notin uuids \/ thist[token].state # "active" THEN thist
    ELSE IF op = "consume" /\ ret # None THEN [thist EXCEPT ![token] = ConsumedToken]
    ELSE IF FoundExpired(token) THEN [thist EXCEPT ![token] = ExpiredToken]
    ELSE IF op = "get" /\ ret # None THEN [thist EXCEPT ![token].peeked = TRUE]
    ELSE thist

TokenCall(op, token, ret) ==
    [op |-> op, token |-> token, ret |-> ret, overdue |-> Overdue(token),
     before |-> Before(token),
     peeked |-> (Before(token) = "active" /\ thist[token].peeked),
     created |-> IF Before(token) = "active" THEN thist[token].payload ELSE None,
     found_expired |-> FoundExpired(token)]

(***************************************************************************)
(* state.py: SeededRecordTracker, self = the _store dict (tag -> list).    *)
(***************************************************************************)
SeededRecordTracker == <<>>

\* faulty variant: track replaces the tag's list instead of appending to it
track_overwrites(self, tag, table, sys_ids) ==
    [self |-> DictSet(self, tag, <<[table |-> table, sys_ids |-> sys_ids]>>),
     ret |-> None]

track(self, tag, table, sys_ids) ==
    LET store1 == IF tag \notin DOMAIN self THEN DictSet(self, tag, <<>>) ELSE self
    IN  [self |-> [store1 EXCEPT ![tag] =
                      Append(@, [table |-> table, sys_ids |-> sys_ids])],
         ret |-> None]

tracker_get(self, tag) ==
    IF tag \notin DOMAIN self THEN [self |-> self, ret |-> None]
    ELSE [self |-> self, ret |-> Some(self[tag])]     \* list(entries)

\* faulty variant: remove drops the entries after the first one only
remove_keeps_first(self, tag) ==
    IF tag \in DOMAIN self /\ Len(self[tag]) > 1
    THEN [self |-> [self EXCEPT ![tag] = <<Head(@)>>], ret |-> None]
    ELSE [self |-> DictDel(self, tag), ret |-> None]

remove(self, tag) == [self |-> DictDel(self, tag), ret |-> None]

Tags == {"x", "y"}
SeedTables == {"incident", "problem"}
SysIdLists == { <<"a">>, <<"b">> }

\* A call as its caller sees it; tracked is the list of track calls made with
\* the tag since it was last removed, as it stood when the call was made.
NoTrackerCall == [op |-> "none", tag |-> "", ret |-> None, tracked |-> <<>>]

TrackerInit ==
    /\ seed_tracker = SeededRecordTracker
    /\ scall = NoTrackerCall
    /\ shist = [tag \in Tags |-> <<>>]

PolicyIdle ==
    /\ settings = [servicenow_env |-> "dev", max_row_limit |-> DEFAULT_MAX_ROW_LIMIT,
                   large_table_names |-> DEFAULT_LARGE_TABLES]
    /\ pcall = [fn |-> "none", args |-> NoArgs, out |-> Returned(None),
                record_after |-> <<>>]

\* No tool has been called: no dispatcher call made, every request slot free,
\* nothing sent to the instance.
Requests == 1..MaxRequests

ToolsIdle ==
    /\ icall = [tool |-> "none"]
    /\ dev = [r \in Requests |-> [pc |-> "free"]]
    /\ remote = <<>>

(***************************************************************************)
(* The token store as a state machine.                                     *)
(***************************************************************************)
Create ==
    /\ Cardinality(uuids) < MaxTokens
    /\ \E payload \in Payloads, token \in Uuids \ uuids :
        LET res == create(preview_store, payload, token, now)
        IN  /\ preview_store' = res.self
            /\ uuids' = uuids \cup {token}
            /\ tcall' = [NoTokenCall EXCEPT !.op = "create", !.token = res.ret,
                                            !.created = payload]
            /\ thist' = DictSet(thist, token, ActiveToken(payload, now))
    /\ UNCHANGED <<now, policyVars, trackerVars, toolVars>>

Get ==
    /\ \E token \in {0} \cup uuids :
        LET res == get(preview_store, token, now)
        IN  /\ preview_store' = res.self
            /\ tcall' = TokenCall("get", token, res.ret)
            /\ thist' = Observe(token, "get", res.ret)
    /\ UNCHANGED <<now, uuids, policyVars, trackerVars, toolVars>>

Consume ==
    /\ \E token \in {0} \cup uuids :
        LET res == consume(preview_store, token, now)
        IN  /\ preview_store' = res.self
            /\ tcall' = TokenCall("consume", token, res.ret)
            /\ thist' = Observe(token, "consume", res.ret)
    /\ UNCHANGED <<now, uuids, policyVars, trackerVars, toolVars>>

\* time.monotonic() advances between calls
Tick ==
    /\ now < MaxTime
    /\ now' = now + 1
    /\ UNCHANGED <<preview_store, uuids, tcall, thist, policyVars, trackerVars, toolVars>>

SpecTokensInit == TokensInit /\ PolicyIdle /\ TrackerInit /\ ToolsIdle
SpecTokensNext == Create \/ Get \/ Consume \/ Tick
SpecTokens == SpecTokensInit /\ [][SpecTokensNext]_vars

(***************************************************************************)
(* The seed ledger as a state machine.                                     *)
(***************************************************************************)
Track ==
    /\ \E tag \in Tags, table \in SeedTables, sys_ids \in SysIdLists :
        /\ Len(shist[tag]) < MaxEntries
        /\ LET res == track(seed_tracker, tag, table, sys_ids)
           IN  /\ seed_tracker' = res.self
               /\ scall' = [op |-> "track", tag |-> tag, ret |-> res.ret,
                            tracked |-> shist[tag]]
        /\ shist' = [shist EXCEPT ![tag] =
                        Append(@, [table |-> table, sys_ids |-> sys_ids])]
    /\ UNCHANGED <<policyVars, tokenVars, toolVars>>

TrackerGet ==
    /\ \E tag \in Tags :
        LET res == tracker_get(seed_tracker, tag)
        IN  /\ seed_tracker' = res.self
            /\ scall' = [op |-> "get", tag |-> tag, ret |-> res.ret,
                         tracked |-> shist[tag]]
    /\ UNCHANGED <<shist, policyVars, tokenVars, toolVars>>

Remove ==
    /\ \E tag \in Tags :
        LET res == remove(seed_tracker, tag)
        IN  /\ seed_tracker' = res.self
            /\ scall' = [op |-> "remove", tag |-> tag, ret |-> res.ret,
                         tracked |-> shist[tag]]
            /\ shist' = [shist EXCEPT ![tag] = <<>>]
    /\ UNCHANGED <<policyVars, tokenVars, toolVars>>

SpecTrackerInit == TrackerInit /\ PolicyIdle /\ TokensIdle /\ ToolsIdle
SpecTrackerNext == Track \/ TrackerGet \/ Remove
SpecTracker == SpecTrackerInit /\ [][SpecTrackerNext]_vars

(***************************************************************************)
(* The policy engine on its own.                                           *)
(***************************************************************************)
SpecPolicyInit == PolicyInit /\ TokensIdle /\ TrackerInit /\ ToolsIdle
SpecPolicyNext ==
    \/ CallCheckTableAccess
    \/ CallEnforceQuerySafety
    \/ CallCanWrite
    \/ CallMaskSensitiveFields
SpecPolicy == SpecPolicyInit /\ [][SpecPolicyNext]_vars

(***************************************************************************)
(* client.py: ServiceNowClient as its callers see it. A call either raises *)
(* one of the errors _raise_for_status maps the HTTP status to, or returns *)
(* the records of the response. A table name in a call is the sequence of  *)
(* its colon-free segments and the colons between them, so that the name   *)
(* an explain function cuts out of an element id can be written down.      *)
(***************************************************************************)
TransportErrors ==
    {"AuthError", "ForbiddenError", "NotFoundError", "ServerError", "ServiceNowMCPError"}

Ok(records) == [ok |-> TRUE, err |-> "", records |-> records]
Failed(err) == [ok |-> FALSE, err |-> err, records |-> <<>>]

ClientCall(op, table, arg) == [op |-> op, table |-> table, arg |-> arg]

\* awaits made one after the other with no try around them: the calls up to
\* the first failing one are made and its error propagates to the caller
Sequential(calls, replies, ret) ==
    LET \* the index of the first call that fails, 0 when every call succeeds
        k == IF \A i \in 1..Len(calls) : replies[i].ok THEN 0
             ELSE CHOOSE i \in 1..Len(calls) :
                     ~replies[i].ok /\ \A j \in 1..(i - 1) : replies[j].ok
    IN  IF k = 0 THEN [raised |-> "", ret |-> ret, calls |-> calls]
        ELSE [raised |-> replies[k].err, ret |-> None, calls |-> SubSeq(calls, 1, k)]

RECURSIVE Flatten(_)
Flatten(seqs) == IF seqs = <<>> THEN <<>> ELSE Head(seqs) \o Flatten(Tail(seqs))

\* A record of a table API response; a key the response lacks reads as the
\* default the modules pass to dict.get.
RemoteRecord(sys_id, name, condition, collection, source, sys_created_on) ==
    [sys_id |-> sys_id, name |-> name, condition |-> condition,
     collection |-> collection, className |-> collection, source |-> source,
     sys_created_on |-> sys_created_on, message |-> name]

(***************************************************************************)
(* Python strings that are formatted into encoded queries, as characters.  *)
(***************************************************************************)
Chars(name) ==
    CASE name = "incident" -> <<"i","n","c","i","d","e","n","t">>
      [] name = "syslog" -> <<"s","y","s","l","o","g">>
      [] name = "sys_user_has_password" ->
            <<"s","y","s","_","u","s","e","r","_","h","a","s","_",
              "p","a","s","s","w","o","r","d">>
      [] name = "sys_created_on" -> DATE_FIELD_PATTERNS[1]
      [] name = "sys_updated_on" -> DATE_FIELD_PATTERNS[2]
      [] name = "id1" -> <<"i","d","1">>
      [] name = "" -> <<>>

\* cutoff.strftime("%Y-%m-%d %H:%M:%S"): digits, dashes, a space and colons
cutoff_str ==
    <<"2","0","2","6","-","1","0","-","0","4"," ","1","9",":","0","0",":","0","0">>

(***************************************************************************)
(* json.loads on the text of a tool argument, and the dict it gives.       *)
(***************************************************************************)
JsonText(kind, value) == [kind |-> kind, value |-> value]

json_loads(text) ==
    IF text.kind = "malformed" THEN Raised("JSONDecodeError") ELSE Returned(text.value)

\* the dict {}
EmptyDict == [key \in {} |-> 0]

\* dict.get(key, default)
dict_get(d, key, default) == IF key \in DOMAIN d THEN d[key] ELSE default

(***************************************************************************)
(* investigations/*.py: the run functions. run(params, replies) gives what *)
(* run does when the i-th client call it awaits is answered by replies[i]: *)
(* the error it raises (raised), the dict it returns (ret) and the client  *)
(* calls it made (calls). The "detail" texts and the echo of the params,   *)
(* which repeat fields already in the result, are left out of ret.         *)
(***************************************************************************)
\* the literal pieces of the encoded queries
Lit ==
    [state_in_progress |-> <<"s","t","a","t","e","=","I","N","_","P","R","O","G","R","E","S","S">>,
     active_false |-> <<"a","c","t","i","v","e","=","f","a","l","s","e">>,
     active_true |-> <<"a","c","t","i","v","e","=","t","r","u","e">>,
     collection_eq |-> <<"c","o","l","l","e","c","t","i","o","n","=">>,
     table_eq |-> <<"t","a","b","l","e","=">>,
     name_startswith |-> <<"n","a","m","e","S","T","A","R","T","S","W","I","T","H">>,
     level_0 |-> <<"l","e","v","e","l","=","0">>,
     source_like |-> <<"^","s","o","u","r","c","e","L","I","K","E">>,
     window |-> <<"w","i","n","d","o","w","_","e","n","d","I","S","E","M","P","T","Y","^",
                  "w","i","n","d","o","w","_","s","t","a","r","t","I","S","E","M","P","T","Y">>,
     caret |-> <<"^">>,
     lt |-> <<"<">>]

\* the keys of a dict built by inserting keys[1], keys[2], ... in turn
RECURSIVE Distinct(_)
Distinct(keys) ==
    IF keys = <<>> THEN <<>>
    ELSE LET init == Distinct(SubSeq(keys, 1, Len(keys) - 1))
             last == keys[Len(keys)]
         IN  IF \E i \in 1..Len(init) : init[i] = last THEN init ELSE Append(init, last)

Column(records, field) == [i \in 1..Len(records) |-> records[i][field]]

Group(records, field, key) == SelectSeq(records, LAMBDA r : r[field] = key)

\* one finding per record, with element_id f"{table}:{sys_id}"
RecordFindings(category, table, records) ==
    [i \in 1..Len(records) |->
        [category |-> category,
         element_id |-> <<table, ":", records[i].sys_id>>,
         name |-> records[i].name]]

\* faulty variant: finding_count tells whether there are findings, not how many
Result_flags_findings(investigation, findings) ==
    [investigation |-> investigation,
     finding_count |-> IF findings = <<>> THEN 0 ELSE 1, findings |-> findings]

Result(investigation, findings) ==
    [investigation |-> investigation, finding_count |-> Len(findings), findings |-> findings]

MissingTable(investigation) ==
    [investigation |-> investigation, error |-> "Missing required parameter: table",
     finding_count |-> 0, findings |-> <<>>]

\* params.get("table") is neither None nor ""
HasTable(params) == "table" \in DOMAIN params /\ params.table # ""

\* ---- stale_automations.run ----
stale_automations_calls ==
    << ClientCall("query_records", <<"flow_context">>,
           Lit.state_in_progress \o Lit.caret \o Chars("sys_created_on") \o Lit.lt \o cutoff_str),
       ClientCall("query_records", <<"sys_script">>, Lit.active_false),
       ClientCall("query_records", <<"sys_script_include">>, Lit.active_false),
       ClientCall("query_records", <<"sysauto_script">>,
           Chars("sys_updated_on") \o Lit.lt \o cutoff_str) >>

stale_automations_run(params, replies) ==
    LET findings ==
            RecordFindings("stuck_flow", "flow_context", replies[1].records)
            \o RecordFindings("disabled_business_rule", "sys_script", replies[2].records)
            \o RecordFindings("disabled_script_include", "sys_script_include", replies[3].records)
            \o RecordFindings("stale_scheduled_job", "sysauto_script", replies[4].records)
    IN  Sequential(stale_automations_calls, replies, Result("stale_automations", findings))

\* ---- acl_conflicts.run ----
acl_conflicts_calls(params) ==
    IF ~HasTable(params) THEN <<>>
    ELSE << ClientCall("query_records", <<"sys_security_acl">>,
                Lit.name_startswith \o Chars(params.table)) >>

\* faulty variant: a missing table gives an empty result that says nothing of it
acl_conflicts_run_silent(params, replies) ==
    IF ~HasTable(params)
    THEN [raised |-> "", calls |-> <<>>,
          ret |-> [investigation |-> "acl_conflicts", finding_count |-> 0, findings |-> <<>>]]
    ELSE
    LET acls == replies[1].records
        names == Distinct(Column(acls, "name"))
        conflicts == SelectSeq(names, LAMBDA n : Len(Group(acls, "name", n)) >= 2)
        findings ==
            [i \in 1..Len(conflicts) |->
                LET group == Group(acls, "name", conflicts[i])
                IN  [category |-> "acl_conflict", name |-> conflicts[i], count |-> Len(group),
                     acls |-> [j \in 1..Len(group) |->
                                 [sys_id |-> group[j].sys_id, condition |-> group[j].condition]]]]
    IN  Sequential(acl_conflicts_calls(params), replies,
            [investigation |-> "acl_conflicts", table |-> params.table,
             finding_count |-> Len(findings), findings |-> findings,
             total_acls_checked |-> Len(acls)])

acl_conflicts_run(params, replies) ==
    IF ~HasTable(params)
    THEN [raised |-> "", ret |-> MissingTable("acl_conflicts"), calls |-> <<>>]
    ELSE
    LET acls == replies[1].records
        names == Distinct(Column(acls, "name"))
        conflicts == SelectSeq(names, LAMBDA n : Len(Group(acls, "name", n)) >= 2)
        findings ==
            [i \in 1..Len(conflicts) |->
                LET group == Group(acls, "name", conflicts[i])
                IN  [category |-> "acl_conflict", name |-> conflicts[i], count |-> Len(group),
                     acls |-> [j \in 1..Len(group) |->
                                 [sys_id |-> group[j].sys_id, condition |-> group[j].condition]]]]
    IN  Sequential(acl_conflicts_calls(params), replies,
            [investigation |-> "acl_conflicts", table |-> params.table,
             finding_count |-> Len(findings), findings |-> findings,
             total_acls_checked |-> Len(acls)])

\* ---- performance_bottlenecks.run ----
HEAVY_AUTOMATION_THRESHOLD == 10

performance_bottlenecks_calls ==
    << ClientCall("query_records", <<"sys_script">>, Lit.active_true),
       ClientCall("query_records", <<"sysauto_script">>, Lit.active_true),
       ClientCall("query_records", <<"flow_context">>, Lit.state_in_progress) >>

\* Counter.most_common(n): the n keys with the highest counts, highest first,
\* keys with equal counts in the order they were first counted
\* faulty variant: the keys are left in the order they were first seen
most_common_unsorted(keys, n) ==
    LET distinct == Distinct(keys)
    IN  [r \in 1..Len(distinct) |->
            [key |-> distinct[r],
             count |-> Cardinality({i \in 1..Len(keys) : keys[i] = distinct[r]})]]

most_common(keys, n) ==
    LET distinct == Distinct(keys)
        count(k) == Cardinality({i \in 1..Len(keys) : keys[i] = k})
        rank(p) == Cardinality({q \in 1..Len(distinct) :
                       \/ count(distinct[q]) > count(distinct[p])
                       \/ count(distinct[q]) = count(distinct[p]) /\ q < p})
        top == IF n < Len(distinct) THEN (IF n < 0 THEN 0 ELSE n) ELSE Len(distinct)
    IN  [r \in 1..top |->
            LET p == CHOOSE p \in 1..Len(distinct) : rank(p) = r - 1
            IN  [key |-> distinct[p], count |-> count(distinct[p])]]

performance_bottlenecks_run(params, replies) ==
    LET limit == dict_get(params, "limit", 20)
        table_counts == most_common(Column(replies[1].records, "collection"), limit)
        heavy == SelectSeq(table_counts, LAMBDA tc : tc.count > HEAVY_AUTOMATION_THRESHOLD)
        findings ==
            [i \in 1..Len(heavy) |->
                [category |-> "heavy_automation", element_id |-> <<heavy[i].key>>,
                 name |-> heavy[i].key, br_count |-> heavy[i].count]]
            \o RecordFindings("frequent_job", "sysauto_script", replies[2].records)
            \o RecordFindings("long_running_flow", "flow_context", replies[3].records)
    IN  Sequential(performance_bottlenecks_calls, replies,
                   Result("performance_bottlenecks", findings))

\* ---- table_health.run ----
table_health_calls(params) ==
    IF ~HasTable(params) THEN <<>>
    ELSE LET table == Chars(params.table)
         IN  << ClientCall("aggregate", <<params.table>>, <<>>),
                ClientCall("query_records", <<"sys_script">>,
                    Lit.collection_eq \o table \o Lit.caret \o Lit.active_true),
                ClientCall("query_records", <<"sys_script_client">>,
                    Lit.table_eq \o table \o Lit.caret \o Lit.active_true),
                ClientCall("query_records", <<"sys_security_acl">>,
                    Lit.name_startswith \o table),
                ClientCall("query_records", <<"sys_ui_policy">>,
                    Lit.table_eq \o table \o Lit.caret \o Lit.active_true),
                ClientCall("query_records", <<"syslog">>,
                    Lit.level_0 \o Lit.source_like \o table) >>

\* The count the Stats API reports is carried as the number of records of
\* the aggregate reply.
table_health_run(params, replies) ==
    IF ~HasTable(params)
    THEN [raised |-> "", ret |-> MissingTable("table_health"), calls |-> <<>>]
    ELSE
    LET br_records == replies[2].records
        acl_records == replies[4].records
        recent_errors == replies[6].records
        health_indicators ==
            (IF Len(br_records) > 10
             THEN <<[indicator |-> "High business rule count", n |-> Len(br_records)]>> ELSE <<>>)
            \o (IF Len(acl_records) > 20
                THEN <<[indicator |-> "High ACL count", n |-> Len(acl_records)]>> ELSE <<>>)
            \o (IF Len(recent_errors) > 0
                THEN <<[indicator |-> "recent errors in syslog", n |-> Len(recent_errors)]>> ELSE <<>>)
    IN  Sequential(table_health_calls(params), replies,
            [investigation |-> "table_health", table |-> params.table,
             record_count |-> Len(replies[1].records),
             recent_errors |-> recent_errors,
             health_indicators |-> health_indicators,
             finding_count |-> Len(health_indicators),
             findings |-> [i \in 1..Len(health_indicators) |->
                             [category |-> "health_indicator",
                              detail |-> health_indicators[i]]]])

\* ---- error_analysis.run ----
error_analysis_calls(params) ==
    << ClientCall("query_records", <<"syslog">>,
           \* params.get("source") is neither None nor ""
           IF "source" \in DOMAIN params /\ params.source # "" THEN Lit.level_0 \o Lit.source_like \o Chars(params.source)
           ELSE Lit.level_0) >>

SeqMin(s) == CHOOSE x \in {s[i] : i \in 1..Len(s)} : \A i \in 1..Len(s) : x <= s[i]
SeqMax(s) == CHOOSE x \in {s[i] : i \in 1..Len(s)} : \A i \in 1..Len(s) : x >= s[i]

error_analysis_run(params, replies) ==
    LET logs == replies[1].records
        \* sorted(clusters.items(), key=-len): most frequent first, ties in insertion order
        clusters == most_common(Column(logs, "source"), Len(logs))
        findings ==
            [i \in 1..Len(clusters) |->
                LET entries == Group(logs, "source", clusters[i].key)
                    timestamps == Column(entries, "sys_created_on")
                IN  [category |-> "error_cluster", source |-> clusters[i].key,
                     frequency |-> Len(entries),
                     first_seen |-> SeqMin(timestamps), last_seen |-> SeqMax(timestamps),
                     sample_messages |->
                         Column(SubSeq(entries, 1, IF Len(entries) < 3 THEN Len(entries) ELSE 3),
                                "message"),
                     element_id |-> <<"syslog", ":", entries[1].sys_id>>]]
    IN  Sequential(error_analysis_calls(params), replies,
            [investigation |-> "error_analysis", finding_count |-> Len(findings),
             findings |-> findings, total_errors |-> Len(logs)])

\* ---- deprecated_apis.run ----
DEPRECATED_PATTERNS ==
    << "Packages.", "gs.include(", "current.setWorkflow(false)",
       "GlideRecordSecure(", "g_form.flash(" >>

deprecated_apis_calls ==
    [i \in 1..Len(DEPRECATED_PATTERNS) |-> ClientCall("code_search", <<>>, DEPRECATED_PATTERNS[i])]

\* faulty variant: a failing search ends the loop (break instead of continue)
deprecated_apis_run_breaks(params, replies) ==
    LET n == Len(DEPRECATED_PATTERNS)
        stop == IF \A i \in 1..n : replies[i].ok THEN n + 1
                ELSE CHOOSE i \in 1..n : ~replies[i].ok /\ \A j \in 1..(i - 1) : replies[j].ok
        findings ==
            Flatten([i \in 1..(stop - 1) |->
                [j \in 1..Len(replies[i].records) |->
                    [pattern |-> DEPRECATED_PATTERNS[i],
                     element_id |-> <<replies[i].records[j].className, ":",
                                      replies[i].records[j].sys_id>>,
                     name |-> replies[i].records[j].name,
                     table |-> replies[i].records[j].className]]])
    IN  [raised |-> "", calls |-> SubSeq(deprecated_apis_calls, 1, IF stop > n THEN n ELSE stop),
         ret |-> [investigation |-> "deprecated_apis", finding_count |-> Len(findings),
                  findings |-> findings, patterns_searched |-> DEPRECATED_PATTERNS]]

\* each search sits in its own try/except Exception: continue
deprecated_apis_run(params, replies) ==
    LET findings ==
            Flatten([i \in 1..Len(DEPRECATED_PATTERNS) |->
                IF ~replies[i].ok THEN <<>>
                ELSE LET matches == replies[i].records
                     IN  [j \in 1..Len(matches) |->
                            [pattern |-> DEPRECATED_PATTERNS[i],
                             element_id |-> <<matches[j].className, ":", matches[j].sys_id>>,
                             name |-> matches[j].name,
                             table |-> matches[j].className]]])
    IN  [raised |-> "", calls |-> deprecated_apis_calls,
         ret |-> [investigation |-> "deprecated_apis", finding_count |-> Len(findings),
                  findings |-> findings, patterns_searched |-> DEPRECATED_PATTERNS]]

\* ---- slow_transactions.run ----
PERFORMANCE_TABLES ==
    << <<"sys_query_pattern", "slow_query">>,
       <<"sys_transaction_pattern", "slow_transaction">>,
       <<"sys_script_pattern", "slow_script">>,
       <<"sys_mutex_pattern", "mutex_contention">>,
       <<"sysevent_pattern", "event_pattern">>,
       <<"sys_interaction_pattern", "slow_interaction">>,
       <<"syslog_cancellation", "cancelled_transaction">> >>

\* params.get("categories"), a comma-separated text, is carried as the
\* sequence of its parts with the blanks around each part stripped; the
\* tables the loop does not skip
slow_transactions_tables(params) ==
    IF "categories" \in DOMAIN params /\ params.categories # <<>>
    THEN LET allowed_categories == {params.categories[i] : i \in 1..Len(params.categories)}
         IN  SelectSeq(PERFORMANCE_TABLES, LAMBDA tc : tc[2] \in allowed_categories)
    ELSE PERFORMANCE_TABLES

slow_transactions_calls(params) ==
    LET tables == slow_transactions_tables(params)
    IN  [i \in 1..Len(tables) |->
            ClientCall("query_records", <<tables[i][1]>>,
                IF tables[i][1] = "syslog_cancellation" THEN <<>> ELSE Lit.window)]

\* each query sits in its own try/except Exception: continue
slow_transactions_run(params, replies) ==
    LET tables == slow_transactions_tables(params)
        findings ==
            Flatten([i \in 1..Len(tables) |->
                IF ~replies[i].ok THEN <<>>
                ELSE LET records == replies[i].records
                     IN  [j \in 1..Len(records) |->
                            [category |-> tables[i][2], table |-> tables[i][1],
                             element_id |-> <<tables[i][1], ":", records[j].sys_id>>,
                             name |-> records[j].name]]])
    IN  [raised |-> "", calls |-> slow_transactions_calls(params),
         ret |-> [investigation |-> "slow_transactions", finding_count |-> Len(findings),
                  findings |-> findings,
                  tables_queried |-> [i \in 1..Len(PERFORMANCE_TABLES) |-> PERFORMANCE_TABLES[i][1]]]]

(***************************************************************************)
(* investigations/*.py: the explain functions. An element id is the        *)
(* sequence of its colon-free segments and the colons between them.        *)
(***************************************************************************)
\* element_id.split(":", 1): the parts before and after the first colon, or
\* the whole text as the only part
split_colon(element_id) ==
    IF \E i \in 1..Len(element_id) : element_id[i] = ":"
    THEN LET c == CHOOSE i \in 1..Len(element_id) :
                     element_id[i] = ":" /\ \A j \in 1..(i - 1) : element_id[j] # ":"
         IN  << SubSeq(element_id, 1, c - 1), SubSeq(element_id, c + 1, Len(element_id)) >>
    ELSE << element_id >>

\* table, sys_id = element_id.split(":", 1); record = await client.get_record(table, sys_id)
explain_record(element_id, replies) ==
    LET parts == split_colon(element_id)
    IN  IF Len(parts) # 2 THEN [raised |-> "ValueError", ret |-> None, calls |-> <<>>]
        ELSE Sequential(<<ClientCall("get_record", parts[1], parts[2])>>, replies,
                 [element |-> element_id, record |-> replies[1].records])

stale_automations_explain(element_id, replies) == explain_record(element_id, replies)
deprecated_apis_explain(element_id, replies) == explain_record(element_id, replies)
error_analysis_explain(element_id, replies) == explain_record(element_id, replies)
slow_transactions_explain(element_id, replies) == explain_record(element_id, replies)

acl_conflicts_explain(element_id, replies) ==
    Sequential(<<ClientCall("get_record", <<"sys_security_acl">>, element_id)>>, replies,
        [element |-> element_id, record |-> replies[1].records])

table_health_explain(element_id, replies) ==
    Sequential(<<ClientCall("aggregate", element_id, <<>>)>>, replies,
        [element |-> element_id, record_count |-> Len(replies[1].records)])

performance_bottlenecks_explain(element_id, replies) ==
    IF \E i \in 1..Len(element_id) : element_id[i] = ":"
    THEN explain_record(element_id, replies)
    ELSE Sequential(
            << ClientCall("aggregate", element_id, <<>>),
               ClientCall("query_records", <<"sys_script">>,
                   Lit.collection_eq \o Flatten([i \in 1..Len(element_id) |-> Chars(element_id[i])])
                   \o Lit.caret \o Lit.active_true) >>,
            replies,
            [element |-> element_id, record_count |-> Len(replies[1].records),
             br_count |-> Len(replies[2].records)])

(***************************************************************************)
(* investigations/__init__.py, utils.py and tools/investigations.py: the   *)
(* registry, the response envelope and the two dispatcher tools.           *)
(***************************************************************************)
INVESTIGATION_REGISTRY ==
    { "stale_automations", "deprecated_apis", "table_health", "acl_conflicts",
      "error_analysis", "slow_transactions", "performance_bottlenecks" }

\* module.run(client, params_dict)
module_run(investigation, params, replies) ==
    CASE investigation = "stale_automations" -> stale_automations_run(params, replies)
      [] investigation = "deprecated_apis" -> deprecated_apis_run(params, replies)
      [] investigation = "table_health" -> table_health_run(params, replies)
      [] investigation = "acl_conflicts" -> acl_conflicts_run(params, replies)
      [] investigation = "error_analysis" -> error_analysis_run(params, replies)
      [] investigation = "slow_transactions" -> slow_transactions_run(params, replies)
      [] investigation = "performance_bottlenecks" -> performance_bottlenecks_run(params, replies)

\* the client calls module.run awaits when none of them fails
module_calls(investigation, params) ==
    CASE investigation = "stale_automations" -> stale_automations_calls
      [] investigation = "deprecated_apis" -> deprecated_apis_calls
      [] investigation = "table_health" -> table_health_calls(params)
      [] investigation = "acl_conflicts" -> acl_conflicts_calls(params)
      [] investigation = "error_analysis" -> error_analysis_calls(params)
      [] investigation = "slow_transactions" -> slow_transactions_calls(params)
      [] investigation = "performance_bottlenecks" -> performance_bottlenecks_calls

\* module.explain(client, element_id)
module_explain(investigation, element_id, replies) ==
    CASE investigation = "stale_automations" -> stale_automations_explain(element_id, replies)
      [] investigation = "deprecated_apis" -> deprecated_apis_explain(element_id, replies)
      [] investigation = "table_health" -> table_health_explain(element_id, replies)
      [] investigation = "acl_conflicts" -> acl_conflicts_explain(element_id, replies)
      [] investigation = "error_analysis" -> error_analysis_explain(element_id, replies)
      [] investigation = "slow_transactions" -> slow_transactions_explain(element_id, replies)
      [] investigation = "performance_bottlenecks" ->
            performance_bottlenecks_explain(element_id, replies)

\* format_response: the envelope; error is absent (None) unless given
format_response(data, status, error) == [status |-> status, data |-> data, error |-> error]

\* str(exc): the text of the error
str(exc) == Some([message |-> exc])

UnknownInvestigation(investigation) ==
    Some([message |-> "Unknown investigation", name |-> investigation,
          available |-> INVESTIGATION_REGISTRY])

\* What a tool call comes to: the envelope it returns (out), the exception
\* that leaves the tool instead ("" when it returns), whether it parsed its
\* JSON argument, whether it entered ServiceNowClient, and what the module
\* function it awaited did (result), the client calls included.
NoResult == [raised |-> "", ret |-> None, calls |-> <<>>]

ToolOutcome(out, escaped, parsed, opened, result) ==
    [out |-> out, escaped |-> escaped, parsed |-> parsed, opened |-> opened,
     result |-> result, calls |-> result.calls]

\* the except clause of a tool, or its return after the with block
Envelope(parsed, result) ==
    IF result.raised # ""
    THEN ToolOutcome(format_response(None, "error", str(result.raised)), "", parsed, TRUE, result)
    ELSE ToolOutcome(format_response(result.ret, "success", None), "", parsed, TRUE, result)

\* faulty variant: the params are parsed before the registry is consulted
investigate_run_parse_first(investigation, params, replies) ==
    LET parsed == IF params.kind = "empty" THEN Returned(EmptyDict) ELSE json_loads(params)
    IN  IF parsed.raised # ""
        THEN ToolOutcome(format_response(None, "error", str(parsed.raised)),
                         "", TRUE, FALSE, NoResult)
        ELSE IF investigation \notin INVESTIGATION_REGISTRY
        THEN ToolOutcome(format_response(None, "error", UnknownInvestigation(investigation)),
                         "", TRUE, FALSE, NoResult)
        ELSE Envelope(TRUE,
                 IF params.kind \notin {"object", "empty"}
                 THEN [raised |-> "AttributeError", ret |-> None, calls |-> <<>>]
                 ELSE module_run(investigation, parsed.ret, replies))

\* faulty variant: the params are parsed before the try block is entered
investigate_run_parse_outside(investigation, params, replies) ==
    LET parsed == IF params.kind = "empty" THEN Returned(EmptyDict) ELSE json_loads(params)
    IN  IF parsed.raised # ""
        THEN ToolOutcome(None, parsed.raised, TRUE, FALSE, NoResult)
        ELSE IF investigation \notin INVESTIGATION_REGISTRY
        THEN ToolOutcome(format_response(None, "error", UnknownInvestigation(investigation)),
                         "", TRUE, FALSE, NoResult)
        ELSE Envelope(TRUE,
                 IF params.kind \notin {"object", "empty"}
                 THEN [raised |-> "AttributeError", ret |-> None, calls |-> <<>>]
                 ELSE module_run(investigation, parsed.ret, replies))

investigate_run(investigation, params, replies) ==
    IF investigation \notin INVESTIGATION_REGISTRY
    THEN ToolOutcome(format_response(None, "error", UnknownInvestigation(investigation)),
                     "", FALSE, FALSE, NoResult)
    ELSE LET parsed == IF params.kind = "empty" THEN Returned(EmptyDict) ELSE json_loads(params)
         IN  IF parsed.raised # ""
             THEN ToolOutcome(format_response(None, "error", str(parsed.raised)),
                              "", TRUE, FALSE, NoResult)
             ELSE Envelope(TRUE,
                      \* a JSON value that is not an object has no get method
                      IF params.kind \notin {"object", "empty"}
                      THEN [raised |-> "AttributeError", ret |-> None, calls |-> <<>>]
                      ELSE module_run(investigation, parsed.ret, replies))

investigate_explain(investigation, element_id, replies) ==
    IF investigation \notin INVESTIGATION_REGISTRY
    THEN ToolOutcome(format_response(None, "error", UnknownInvestigation(investigation)),
                     "", FALSE, FALSE, NoResult)
    ELSE Envelope(FALSE, module_explain(investigation, element_id, replies))

(***************************************************************************)
(* The dispatcher as a state machine: one tool call, its arguments and the *)
(* answers of the instance drawn from the sets below.                      *)
(***************************************************************************)
Investigations == INVESTIGATION_REGISTRY \cup {"table_healt", ""}

ParamTexts ==
    { JsonText("empty", EmptyDict), JsonText("malformed", EmptyDict),
      JsonText("array", EmptyDict) }
    \cup { JsonText("object", obj) : obj \in
    { EmptyDict,
      [table |-> "incident"], [table |-> ""], [table |-> "syslog"],
      [table |-> "sys_user_has_password"],
      [source |-> "incident"], [limit |-> 0],
      [categories |-> <<"slow_query", "cancelled_transaction">>],
      [categories |-> <<"no_such_category">>] } }

ElementIds ==
    { <<"flow_context", ":", "id1">>, <<"sys_user_has_password", ":", "id1">>,
      <<"syslog", ":", "id1">>, <<"syslog", ":", "id1", ":", "id1">>,
      <<"sys_user_has_password">>, <<"incident">>, <<"id1">>, <<>> }

\* the ACL records a sys_security_acl query can return
AclPool ==
    { RemoteRecord("acl1", "incident.read", "active=true", "", "", 0),
      RemoteRecord("acl2", "incident.read", "priority=1", "", "", 0),
      RemoteRecord("acl3", "incident.read", "active=true", "", "", 0),
      RemoteRecord("acl4", "incident.write", "active=true", "", "", 0) }

RECURSIVE SeqsUpTo(_, _)
SeqsUpTo(pool, n) ==
    IF n = 0 THEN { <<>> }
    ELSE LET shorter == SeqsUpTo(pool, n - 1)
         IN  shorter \cup { Append(s, x) : s \in {t \in shorter : Len(t) = n - 1}, x \in pool }

OneRecord == RemoteRecord("id1", "n1", "", "incident", "src1", 1)

\* n records of one table, each with its own sys_id
ManyRecords(n) ==
    LET ids == << "b01", "b02", "b03", "b04", "b05", "b06", "b07", "b08", "b09", "b10", "b11",
                  "b12", "b13", "b14", "b15", "b16", "b17", "b18", "b19", "b20", "b21" >>
    IN  [i \in 1..n |-> RemoteRecord(ids[i], "n1", "", "incident", "src1", 1)]

\* the record lists a successful call of the investigation can be answered with
RecordLists(investigation) ==
    CASE investigation = "acl_conflicts" ->
            \* a response holds a record once
            { acls \in SeqsUpTo(AclPool, MaxAcls) :
                \A i, j \in 1..Len(acls) : i # j => acls[i].sys_id # acls[j].sys_id }
      [] investigation = "error_analysis" ->
            \* entries of two sources, in any order, a response holds an entry once
            { logs \in SeqsUpTo({ RemoteRecord("id1", "m1", "", "", "A", 1),
                                  RemoteRecord("id2", "m2", "", "", "A", 2),
                                  RemoteRecord("id3", "m3", "", "", "B", 3),
                                  RemoteRecord("id4", "m4", "", "", "A", 4),
                                  RemoteRecord("id5", "m5", "", "", "A", 5) }, MaxLogs) :
                \A i, j \in 1..Len(logs) : i # j => logs[i].sys_id # logs[j].sys_id }
      [] investigation = "performance_bottlenecks" ->
            \* no record, one, and as many rules of one table as the threshold
            \* and one more
            { <<>>, <<OneRecord>>, ManyRecords(HEAVY_AUTOMATION_THRESHOLD),
              ManyRecords(HEAVY_AUTOMATION_THRESHOLD + 1) }
      [] investigation = "table_health" ->
            \* one record, and enough of them to pass the rule and ACL marks
            { <<>>, <<OneRecord>>, ManyRecords(21) }
      [] investigation = "stale_automations" ->
            { <<>>, <<OneRecord>> }
      [] OTHER -> { <<OneRecord>> }

\* the answers to n calls in a row, err being the error of those that fail
ReplySeqs(n, investigation, err) ==
    [1..n -> {Failed(err)} \cup {Ok(records) : records \in RecordLists(investigation)}]

InvestigateInit ==
    /\ settings \in {s \in SettingsSpace : /\ s.servicenow_env = "dev"
                                           /\ s.max_row_limit = DEFAULT_MAX_ROW_LIMIT}
    /\ pcall = [fn |-> "none", args |-> NoArgs, out |-> Returned(None),
                record_after |-> <<>>]
    /\ ToolsIdle

InvestigateRun ==
    /\ icall.tool = "none"
    /\ \E investigation \in Investigations, params \in ParamTexts, err \in TransportErrors :
         \E replies \in ReplySeqs(
                IF investigation \in INVESTIGATION_REGISTRY /\ params.kind \in {"object", "empty"}
                THEN Len(module_calls(investigation, params.value)) ELSE 0,
                investigation, err) :
            icall' = [tool |-> "investigate_run", investigation |-> investigation,
                      params |-> params, element_id |-> <<>>, replies |-> replies]
                     @@ investigate_run(investigation, params, replies)
    /\ UNCHANGED <<policyVars, tokenVars, trackerVars, dev, remote>>

InvestigateExplain ==
    /\ icall.tool = "none"
    /\ \E investigation \in Investigations, element_id \in ElementIds, err \in TransportErrors :
         \* explain awaits at most two calls
         \E replies \in ReplySeqs(
                IF investigation \notin INVESTIGATION_REGISTRY THEN 0
                ELSE Len(module_explain(investigation, element_id,
                                        <<Ok(<<OneRecord>>), Ok(<<OneRecord>>)>>).calls),
                investigation, err) :
            icall' = [tool |-> "investigate_explain", investigation |-> investigation,
                      params |-> JsonText("empty", EmptyDict), element_id |-> element_id,
                      replies |-> replies]
                     @@ investigate_explain(investigation, element_id, replies)
    /\ UNCHANGED <<policyVars, tokenVars, trackerVars, dev, remote>>

SpecInvestigateInit == InvestigateInit /\ TokensIdle /\ TrackerInit
SpecInvestigateNext == InvestigateRun \/ InvestigateExplain
SpecInvestigate == SpecInvestigateInit /\ [][SpecInvestigateNext]_vars

(***************************************************************************)
(* tools/developer.py: the developer tools. A tool call runs in a request  *)
(* slot; it runs without interruption up to a client call it awaits, and   *)
(* from the answer of that call up to the next one or to its return, so    *)
(* the calls of different slots interleave at their awaits. Every tool     *)
(* body sits in try / except Exception, which turns an error into the      *)
(* error envelope. remote lists the client calls in the order they were    *)
(* sent, each with the slot that sent it. Record ids are numbers: 0 is the *)
(* id a caller passes, the instance numbers the records it creates from 1. *)
(***************************************************************************)
DEFAULT_TTL_SECONDS == 300


\* slots are taken in order, each by one tool call
CanStart(r) == dev[r].pc = "free" /\ \A q \in 1..(r - 1) : dev[q].pc # "free"

Awaiting(tool, args, loc) == [pc |-> "await", tool |-> tool, args |-> args, loc |-> loc]

Done(tool, args, out) ==
    [pc |-> "done", tool |-> tool, args |-> args, out |-> out, escaped |-> ""]

Sent(r, op, table, sys_id, data) ==
    [by |-> r, op |-> op, table |-> table, sys_id |-> sys_id, data |-> data]

WriteBlocked ==
    format_response(None, "error",
                    str("Write operations are blocked in production environments"))

Resumes(r, tool) == dev[r].pc = "await" /\ dev[r].tool = tool

\* uuid.uuid4(): a value not produced before (the least unused one)
uuid4 == CHOOSE u \in Uuids \ uuids : \A v \in Uuids \ uuids : u <= v

\* ---- table_preview_update ----
PendingPreviews == {q \in Requests : Resumes(q, "table_preview_update")}

table_preview_update(r) ==
    /\ CanStart(r)
    /\ Cardinality(uuids) + Cardinality(PendingPreviews) < MaxTokens
    /\ \E table \in {"incident", "sys_user_has_password"},
          changes \in { JsonText("object", [state |-> "2"]), JsonText("malformed", EmptyDict),
                        JsonText("array", EmptyDict) } :
        LET args == [table |-> table, sys_id |-> 0, changes |-> changes]
            changes_dict == json_loads(changes)
        IN  IF ~can_write(table, settings, FALSE)
            THEN /\ dev' = [dev EXCEPT ![r] = Done("table_preview_update", args, WriteBlocked)]
                 /\ remote' = remote
            ELSE IF changes_dict.raised # ""
            THEN /\ dev' = [dev EXCEPT ![r] = Done("table_preview_update", args,
                                format_response(None, "error", str(changes_dict.raised)))]
                 /\ remote' = remote
            ELSE /\ dev' = [dev EXCEPT ![r] = Awaiting("table_preview_update", args,
                                [changes_dict |-> changes_dict.ret])]
                 /\ remote' = Append(remote, Sent(r, "get_record", table, 0, None))
    /\ UNCHANGED <<policyVars, tokenVars, trackerVars, icall>>

table_preview_update_resume(r) ==
    /\ Resumes(r, "table_preview_update")
    /\ \E reply \in {Ok(<<[state |-> "1"]>>)} \cup {Failed("ServerError")} :
        LET args == dev[r].args
        IN  IF ~reply.ok
            THEN /\ dev' = [dev EXCEPT ![r] = Done("table_preview_update", args,
                                format_response(None, "error", str(reply.err)))]
                 /\ UNCHANGED <<preview_store, uuids>>
            ELSE IF args.changes.kind # "object"
            THEN \* changes_dict.items() on a value that is not a dict
                 /\ dev' = [dev EXCEPT ![r] = Done("table_preview_update", args,
                                format_response(None, "error", str("AttributeError")))]
                 /\ UNCHANGED <<preview_store, uuids>>
            ELSE LET current == reply.records[1]
                     changes_dict == dev[r].loc.changes_dict
                     diff == [field \in DOMAIN changes_dict |->
                                [old |-> dict_get(current, field, ""),
                                 new |-> changes_dict[field]]]
                     res == create(preview_store,
                                   [table |-> args.table, sys_id |-> args.sys_id,
                                    changes |-> changes_dict],
                                   uuid4, now)
                 IN  /\ preview_store' = res.self
                     /\ uuids' = uuids \cup {res.ret}
                     /\ dev' = [dev EXCEPT ![r] = Done("table_preview_update", args,
                                    format_response(
                                        [token |-> res.ret, table |-> args.table,
                                         sys_id |-> args.sys_id, diff |-> diff],
                                        "success", None))]
    /\ UNCHANGED <<policyVars, now, tcall, thist, trackerVars, icall, remote>>

\* ---- table_apply_update ----
\* faulty variant: the token is looked up with get and stays in the store
table_apply_update_peeks(r) ==
    /\ CanStart(r)
    /\ \E preview_token \in {0} \cup uuids :
        LET args == [preview_token |-> preview_token]
            res == get(preview_store, preview_token, now)
            payload == res.ret
        IN  /\ preview_store' = res.self
            /\ IF payload = None
               THEN /\ dev' = [dev EXCEPT ![r] = Done("table_apply_update", args,
                                   format_response(None, "error",
                                                   str("Invalid or expired preview token")))]
                    /\ remote' = remote
               ELSE /\ dev' = [dev EXCEPT ![r] = Awaiting("table_apply_update", args,
                                   [payload |-> payload])]
                    /\ remote' = Append(remote, Sent(r, "update_record", payload.table,
                                                     payload.sys_id, payload.changes))
    /\ UNCHANGED <<policyVars, now, uuids, tcall, thist, trackerVars, icall>>

table_apply_update(r) ==
    /\ CanStart(r)
    /\ \E preview_token \in {0} \cup uuids :
        LET args == [preview_token |-> preview_token]
            res == consume(preview_store, preview_token, now)
            payload == res.ret
        IN  /\ preview_store' = res.self
            /\ IF payload = None
               THEN /\ dev' = [dev EXCEPT ![r] = Done("table_apply_update", args,
                                   format_response(None, "error",
                                                   str("Invalid or expired preview token")))]
                    /\ remote' = remote
               ELSE /\ dev' = [dev EXCEPT ![r] = Awaiting("table_apply_update", args,
                                   [payload |-> payload])]
                    /\ remote' = Append(remote, Sent(r, "update_record", payload.table,
                                                     payload.sys_id, payload.changes))
    /\ UNCHANGED <<policyVars, now, uuids, tcall, thist, trackerVars, icall>>

\* faulty variant: a failed update_record puts the payload back under its token
table_apply_update_resume_restores(r) ==
    /\ Resumes(r, "table_apply_update")
    /\ \E reply \in {Ok(<<[state |-> "2"]>>)} \cup {Failed("ServerError")} :
        LET payload == dev[r].loc.payload
        IN  /\ dev' = [dev EXCEPT ![r] = Done("table_apply_update", dev[r].args,
                        IF reply.ok
                        THEN format_response([table |-> payload.table, sys_id |-> payload.sys_id,
                                              record |-> reply.records[1]], "success", None)
                        ELSE format_response(None, "error", str(reply.err)))]
            /\ preview_store' =
                  IF reply.ok THEN preview_store
                  ELSE create(preview_store, payload, dev[r].args.preview_token, now).self
    /\ UNCHANGED <<policyVars, now, uuids, tcall, thist, trackerVars, icall, remote>>

table_apply_update_resume(r) ==
    /\ Resumes(r, "table_apply_update")
    /\ \E reply \in {Ok(<<[state |-> "2"]>>)} \cup {Failed("ServerError")} :
        LET payload == dev[r].loc.payload
        IN  dev' = [dev EXCEPT ![r] = Done("table_apply_update", dev[r].args,
                        IF reply.ok
                        THEN format_response([table |-> payload.table, sys_id |-> payload.sys_id,
                                              record |-> reply.records[1]], "success", None)
                        ELSE format_response(None, "error", str(reply.err)))]
    /\ UNCHANGED <<policyVars, tokenVars, trackerVars, icall, remote>>

\* ---- dev_toggle ----
ARTIFACT_TABLES ==
    [business_rule |-> "sys_script", script_include |-> "sys_script_include",
     ui_policy |-> "sys_ui_policy", ui_action |-> "sys_ui_action",
     client_script |-> "sys_script_client", scheduled_job |-> "sysauto_script",
     fix_script |-> "sys_script_fix"]

dev_toggle(r) ==
    /\ CanStart(r)
    /\ \E artifact_type \in {"business_rule", "widget"} :
        LET args == [artifact_type |-> artifact_type, sys_id |-> 0, active |-> FALSE]
        IN  IF artifact_type \notin DOMAIN ARTIFACT_TABLES
            THEN /\ dev' = [dev EXCEPT ![r] = Done("dev_toggle", args,
                                format_response(None, "error", str("Unknown artifact type")))]
                 /\ remote' = remote
            ELSE IF ~can_write(ARTIFACT_TABLES[artifact_type], settings, FALSE)
            THEN /\ dev' = [dev EXCEPT ![r] = Done("dev_toggle", args, WriteBlocked)]
                 /\ remote' = remote
            ELSE /\ dev' = [dev EXCEPT ![r] = Awaiting("dev_toggle", args,
                                [table |-> ARTIFACT_TABLES[artifact_type], at |-> "get_record"])]
                 /\ remote' = Append(remote,
                        Sent(r, "get_record", ARTIFACT_TABLES[artifact_type], 0, None))
    /\ UNCHANGED <<policyVars, tokenVars, trackerVars, icall>>

dev_toggle_resume(r) ==
    /\ Resumes(r, "dev_toggle")
    /\ \E reply \in {Ok(<<[active |-> "true"]>>)} \cup {Failed("ServerError")} :
        LET args == dev[r].args
            loc == dev[r].loc
        IN  IF ~reply.ok
            THEN /\ dev' = [dev EXCEPT ![r] = Done("dev_toggle", args,
                                format_response(None, "error", str(reply.err)))]
                 /\ remote' = remote
            ELSE IF loc.at = "get_record"
            THEN /\ dev' = [dev EXCEPT ![r] = Awaiting("dev_toggle", args,
                                [table |-> loc.table, at |-> "update_record"])]
                 /\ remote' = Append(remote,
                        Sent(r, "update_record", loc.table, args.sys_id, [active |-> "false"]))
            ELSE /\ dev' = [dev EXCEPT ![r] = Done("dev_toggle", args,
                                format_response([sys_id |-> args.sys_id, table |-> loc.table],
                                                "success", None))]
                 /\ remote' = remote
    /\ UNCHANGED <<policyVars, tokenVars, trackerVars, icall>>

\* ---- dev_set_property ----
dev_set_property(r) ==
    /\ CanStart(r)
    /\ LET args == [name |-> "glide.ui.session_timeout", value |-> "30"]
       IN  IF ~can_write("sys_properties", settings, FALSE)
           THEN /\ dev' = [dev EXCEPT ![r] = Done("dev_set_property", args, WriteBlocked)]
                /\ remote' = remote
           ELSE /\ dev' = [dev EXCEPT ![r] = Awaiting("dev_set_property", args,
                               [at |-> "query_records"])]
                /\ remote' = Append(remote,
                       Sent(r, "query_records", "sys_properties", 0, None))
    /\ UNCHANGED <<policyVars, tokenVars, trackerVars, icall>>

dev_set_property_resume(r) ==
    /\ Resumes(r, "dev_set_property")
    /\ \E reply \in {Ok(<<>>), Ok(<<[sys_id |-> 0, value |-> "20"]>>)}
                    \cup {Failed("ServerError")} :
        LET args == dev[r].args
        IN  IF ~reply.ok
            THEN /\ dev' = [dev EXCEPT ![r] = Done("dev_set_property", args,
                                format_response(None, "error", str(reply.err)))]
                 /\ remote' = remote
            ELSE IF dev[r].loc.at = "query_records"
            THEN IF reply.records = <<>>
                 THEN /\ dev' = [dev EXCEPT ![r] = Done("dev_set_property", args,
                                    format_response(None, "error", str("Property not found")))]
                      /\ remote' = remote
                 ELSE /\ dev' = [dev EXCEPT ![r] = Awaiting("dev_set_property", args,
                                    [at |-> "update_record"])]
                      /\ remote' = Append(remote,
                             Sent(r, "update_record", "sys_properties",
                                  reply.records[1].sys_id, [value |-> args.value]))
            ELSE /\ reply.records # <<>>
                 /\ dev' = [dev EXCEPT ![r] = Done("dev_set_property", args,
                                format_response([name |-> args.name, new_value |-> args.value],
                                                "success", None))]
                 /\ remote' = remote
    /\ UNCHANGED <<policyVars, tokenVars, trackerVars, icall>>

\* ---- dev_seed_test_data ----
\* the id the instance gives the next record it creates
NextSysId == Cardinality({i \in 1..Len(remote) : remote[i].op = "create_record"}) + 1

dev_seed_test_data(r) ==
    /\ CanStart(r)
    /\ \E table \in {"incident", "sys_user_has_password"},
          records \in { JsonText("malformed", <<>>),
                        JsonText("array", <<[short_description |-> "one"],
                                            [short_description |-> "two"]>>) },
          tag \in {"x", ""} :
        LET args == [table |-> table, records |-> records, tag |-> tag]
            record_list == json_loads(records)
        IN  IF ~can_write(table, settings, FALSE)
            THEN /\ dev' = [dev EXCEPT ![r] = Done("dev_seed_test_data", args, WriteBlocked)]
                 /\ UNCHANGED <<remote, uuids>>
            ELSE IF record_list.raised # ""
            THEN /\ dev' = [dev EXCEPT ![r] = Done("dev_seed_test_data", args,
                                format_response(None, "error", str(record_list.raised)))]
                 /\ UNCHANGED <<remote, uuids>>
            ELSE /\ tag = "" => Cardinality(uuids) + Cardinality(PendingPreviews) < MaxTokens
                 /\ uuids' = IF tag = "" THEN uuids \cup {uuid4} ELSE uuids
                 /\ dev' = [dev EXCEPT ![r] = Awaiting("dev_seed_test_data", args,
                                [record_list |-> record_list.ret,
                                 \* tag if tag else f"seed-{uuid.uuid4().hex[:8]}"
                                 seed_tag |-> CASE tag # "" -> tag
                                                [] uuid4 = 1 -> "seed-00000001"
                                                [] uuid4 = 2 -> "seed-00000002"
                                                [] uuid4 = 3 -> "seed-00000003"
                                                [] OTHER -> "seed-00000004",
                                 sys_ids |-> <<>>,
                                 created |-> NextSysId])]
                 /\ remote' = Append(remote,
                        Sent(r, "create_record", table, NextSysId, record_list.ret[1]))
    /\ UNCHANGED <<policyVars, preview_store, now, tcall, thist, trackerVars, icall>>

dev_seed_test_data_resume(r) ==
    /\ Resumes(r, "dev_seed_test_data")
    /\ \E ok \in BOOLEAN, err \in {"ServerError"} :
        LET args == dev[r].args
            loc == dev[r].loc
            sys_ids == Append(loc.sys_ids, loc.created)
        IN  IF ~ok
            THEN /\ dev' = [dev EXCEPT ![r] = Done("dev_seed_test_data", args,
                                format_response(None, "error", str(err)))]
                 /\ UNCHANGED <<remote, seed_tracker>>
            ELSE IF Len(sys_ids) < Len(loc.record_list)
            THEN /\ dev' = [dev EXCEPT ![r] = Awaiting("dev_seed_test_data", args,
                                [loc EXCEPT !.sys_ids = sys_ids, !.created = NextSysId])]
                 /\ remote' = Append(remote,
                        Sent(r, "create_record", args.table, NextSysId,
                             loc.record_list[Len(sys_ids) + 1]))
                 /\ UNCHANGED seed_tracker
            ELSE /\ seed_tracker' = track(seed_tracker, loc.seed_tag, args.table, sys_ids).self
                 /\ dev' = [dev EXCEPT ![r] = Done("dev_seed_test_data", args,
                                format_response(
                                    [table |-> args.table, created_count |-> Len(sys_ids),
                                     sys_ids |-> sys_ids, tag |-> loc.seed_tag],
                                    "success", None))]
                 /\ remote' = remote
    /\ UNCHANGED <<policyVars, tokenVars, scall, shist, icall>>

\* ---- dev_cleanup ----
dev_cleanup(r) ==
    /\ CanStart(r)
    /\ \E tag \in {"x"} \cup DOMAIN seed_tracker :
        LET args == [tag |-> tag]
            entries == tracker_get(seed_tracker, tag).ret
        IN  IF entries = None
            THEN /\ dev' = [dev EXCEPT ![r] = Done("dev_cleanup", args,
                                format_response(None, "error", str("No records found for tag")))]
                 /\ remote' = remote
            ELSE LET \* for entry in entries: for sys_id in entry["sys_ids"]
                     todo == Flatten([i \in 1..Len(entries.v) |->
                                [j \in 1..Len(entries.v[i].sys_ids) |->
                                    [table |-> entries.v[i].table,
                                     sys_id |-> entries.v[i].sys_ids[j]]]])
                 IN  /\ dev' = [dev EXCEPT ![r] = Awaiting("dev_cleanup", args,
                                    [todo |-> todo, deleted_count |-> 0])]
                     /\ remote' = Append(remote,
                            Sent(r, "delete_record", todo[1].table, todo[1].sys_id, None))
    /\ UNCHANGED <<policyVars, tokenVars, trackerVars, icall>>

dev_cleanup_resume(r) ==
    /\ Resumes(r, "dev_cleanup")
    /\ \E ok \in BOOLEAN, err \in {"ServerError"} :
        LET args == dev[r].args
            loc == dev[r].loc
            deleted_count == loc.deleted_count + 1
        IN  IF ~ok
            THEN /\ dev' = [dev EXCEPT ![r] = Done("dev_cleanup", args,
                                format_response(None, "error", str(err)))]
                 /\ UNCHANGED <<remote, seed_tracker>>
            ELSE IF deleted_count < Len(loc.todo)
            THEN /\ dev' = [dev EXCEPT ![r] = Awaiting("dev_cleanup", args,
                                [loc EXCEPT !.deleted_count = deleted_count])]
                 /\ remote' = Append(remote,
                        Sent(r, "delete_record", loc.todo[deleted_count + 1].table,
                             loc.todo[deleted_count + 1].sys_id, None))
                 /\ UNCHANGED seed_tracker
            ELSE /\ seed_tracker' = remove(seed_tracker, args.tag).self
                 /\ dev' = [dev EXCEPT ![r] = Done("dev_cleanup", args,
                                format_response([tag |-> args.tag,
                                                 deleted_count |-> deleted_count],
                                                "success", None))]
                 /\ remote' = remote
    /\ UNCHANGED <<policyVars, tokenVars, scall, shist, icall>>

\* time passes between two steps
DevTick ==
    /\ \E t \in {DEFAULT_TTL_SECONDS, DEFAULT_TTL_SECONDS + 1} : t > now /\ now' = t
    /\ UNCHANGED <<policyVars, preview_store, uuids, tcall, thist, trackerVars, toolVars>>

DevInit ==
    /\ settings \in {s \in SettingsSpace : /\ s.max_row_limit = DEFAULT_MAX_ROW_LIMIT
                                           /\ s.large_table_names = DEFAULT_LARGE_TABLES}
    /\ pcall = [fn |-> "none", args |-> NoArgs, out |-> Returned(None),
                record_after |-> <<>>]
    /\ preview_store = PreviewTokenStore(DEFAULT_TTL_SECONDS)
    /\ now = 0
    /\ uuids = {}
    /\ tcall = NoTokenCall
    /\ thist = <<>>
    /\ TrackerInit
    /\ ToolsIdle

SpecDevNext ==
    \/ \E r \in Requests : dev_toggle(r)
    \/ \E r \in Requests : dev_toggle_resume(r)
    \/ \E r \in Requests : dev_set_property(r)
    \/ \E r \in Requests : dev_set_property_resume(r)
    \/ \E r \in Requests : dev_seed_test_data(r)
    \/ \E r \in Requests : dev_seed_test_data_resume(r)
    \/ \E r \in Requests : dev_cleanup(r)
    \/ \E r \in Requests : dev_cleanup_resume(r)
    \/ \E r \in Requests : table_preview_update(r)
    \/ \E r \in Requests : table_preview_update_resume(r)
    \/ \E r \in Requests : table_apply_update(r)
    \/ \E r \in Requests : table_apply_update_resume(r)
    \/ DevTick
SpecDev == DevInit /\ [][SpecDevNext]_vars


\* The dispatcher and the developer tools together. The dispatcher keeps no
\* state between calls and shares none with the developer tools, so a
\* behaviour is either one dispatcher call or a run of developer tool calls.
SpecToolsNext ==
    \/ (\A r \in Requests : dev[r].pc = "free") /\ SpecInvestigateNext
    \/ icall.tool = "none" /\ SpecDevNext
SpecTools == DevInit /\ [][SpecToolsNext]_vars

(***************************************************************************)
(* Claims about the policy engine, checked under SpecPolicy.               *)
(***************************************************************************)
InsertAt(s, pos, piece) == SubSeq(s, 1, pos) \o piece \o SubSeq(s, pos + 1, Len(s))

NoDateFieldIn(query) ==
    \A i \in 1..Len(DATE_FIELD_PATTERNS) : ~Contains(query, DATE_FIELD_PATTERNS[i])

MatchesSensitivityPattern(field_name) ==
    \E i \in 1..Len(SENSITIVE_PATTERNS) : Contains(Fold(field_name), SENSITIVE_PATTERNS[i])

\* C1: a deny-listed table is refused by check_table_access (PolicyError), by
\* enforce_query_safety for every query, limit and settings, and by can_write
\* for every settings and override; any other table passes check_table_access
\* with None.
C1_DenyListAlwaysDenies ==
    LET a == pcall.args
        denied == a.table \in DENIED_TABLES
    IN  /\ pcall.fn = "check_table_access" =>
              IF denied THEN pcall.out.raised = "PolicyError"
                        ELSE pcall.out = Returned(None)
        /\ (pcall.fn = "enforce_query_safety" /\ denied) => pcall.out.raised = "PolicyError"
        /\ (pcall.fn = "can_write" /\ denied) => pcall.out = Returned(FALSE)

C1_Witness ==
    /\ pcall.fn = "enforce_query_safety"
    /\ pcall.args.table = "sys_user_token"
    /\ pcall.args.table \in settings.large_table_names
    /\ ~NoDateFieldIn(pcall.args.query)
    /\ pcall.args.limit = Some(1)
    /\ pcall.out.raised = "PolicyError"

\* C2: can_write is False for a deny-listed table, otherwise False in
\* production without override, otherwise True.
C2_CanWriteDecision ==
    pcall.fn = "can_write" =>
        LET a == pcall.args
            prod == settings.servicenow_env = "prod"
        IN  /\ pcall.out.raised = ""
            /\ pcall.out.ret = (a.table \notin DENIED_TABLES /\ (~prod \/ a.override))
            /\ (a.table = "incident" /\ prod /\ ~a.override) => pcall.out.ret = FALSE
            /\ (a.table = "incident" /\ prod /\ a.override) => pcall.out.ret = TRUE
            /\ (a.table = "incident" /\ ~prod /\ ~a.override) => pcall.out.ret = TRUE

C2_Witness ==
    /\ pcall.fn = "can_write"
    /\ pcall.args.table = "incident"
    /\ settings.servicenow_env = "prod"
    /\ pcall.args.override
    /\ pcall.out.ret = TRUE

\* C3: a successful enforce_query_safety returns max_row_limit when the
\* requested limit is None or above max_row_limit, and the requested limit
\* otherwise; the result never exceeds max_row_limit nor a given limit.
C3_EffectiveLimit ==
    (pcall.fn = "enforce_query_safety" /\ pcall.out.raised = "") =>
        LET limit == pcall.args.limit
            max == settings.max_row_limit
            got == pcall.out.ret.limit
        IN  /\ limit.none => got = max
            /\ (~limit.none /\ limit.v > max) => got = max
            /\ (~limit.none /\ limit.v <= max) => got = limit.v
            /\ got <= max
            /\ ~limit.none => got <= limit.v

C3_Witness ==
    /\ pcall.fn = "enforce_query_safety"
    /\ pcall.out.raised = ""
    /\ settings.max_row_limit = DEFAULT_MAX_ROW_LIMIT
    /\ pcall.args.limit = Some(DEFAULT_MAX_ROW_LIMIT + 1)
    /\ pcall.out.ret.limit = DEFAULT_MAX_ROW_LIMIT

\* C4 as stated: for every table of large_table_names, a filter without a
\* date-field name yields QuerySafetyError and the same call with a date-field
\* name added succeeds; other tables never yield QuerySafetyError.
C4_Original ==
    pcall.fn = "enforce_query_safety" =>
        LET a == pcall.args
        IN  /\ (a.table \in settings.large_table_names /\ NoDateFieldIn(a.query)) =>
                  /\ pcall.out.raised = "QuerySafetyError"
                  /\ \A i \in 1..Len(DATE_FIELD_PATTERNS), pos \in 0..Len(a.query) :
                        enforce_query_safety(a.table,
                                             InsertAt(a.query, pos, DATE_FIELD_PATTERNS[i]),
                                             a.limit, settings).raised = ""
            /\ a.table \notin settings.large_table_names =>
                  pcall.out.raised # "QuerySafetyError"

\* C4 (amended): for every table of large_table_names that is not
\* deny-listed, a filter without a date-field name yields QuerySafetyError for
\* every limit, and the same call with a date-field name added anywhere
\* succeeds; a deny-listed table yields PolicyError instead, with or without
\* a date field; tables outside large_table_names never yield QuerySafetyError.
C4_LargeTableNeedsDateFilter ==
    pcall.fn = "enforce_query_safety" =>
        LET a == pcall.args
            large == a.table \in settings.large_table_names
            denied == a.table \in DENIED_TABLES
        IN  /\ (large /\ ~denied /\ NoDateFieldIn(a.query)) =>
                  /\ pcall.out.raised = "QuerySafetyError"
                  /\ \A i \in 1..Len(DATE_FIELD_PATTERNS), pos \in 0..Len(a.query) :
                        enforce_query_safety(a.table,
                                             InsertAt(a.query, pos, DATE_FIELD_PATTERNS[i]),
                                             a.limit, settings).raised = ""
            /\ (large /\ denied) => pcall.out.raised = "PolicyError"
            /\ ~large => pcall.out.raised # "QuerySafetyError"

C4_Witness ==
    /\ pcall.fn = "enforce_query_safety"
    /\ pcall.args.table = "syslog"
    /\ pcall.args.table \in settings.large_table_names
    /\ pcall.args.query = <<"S","Y","S","_","C","R","E","A","T","E","D","_","O","N">>
    /\ pcall.out.raised = "QuerySafetyError"

\* C5: mask_sensitive_fields returns a record with the same field names, the
\* sentinel in every field whose name matches a sensitivity pattern
\* case-insensitively (whatever the value's type), the original value in every
\* other field, and leaves the caller's record as it was.
C5_MaskSensitiveFields ==
    pcall.fn = "mask_sensitive_fields" =>
        LET r == pcall.args.record
            m == pcall.out.ret
        IN  /\ pcall.out.raised = ""
            /\ DOMAIN m = DOMAIN r
            /\ \A k \in DOMAIN r :
                  m[k] = IF MatchesSensitivityPattern(k) THEN MASK_VALUE ELSE r[k]
            /\ pcall.record_after = r

C5_Witness ==
    LET pw == <<"u","s","e","r","_","P","A","S","S","W","O","R","D">>
        nm == <<"n","a","m","e">>
    IN  /\ pcall.fn = "mask_sensitive_fields"
        /\ DOMAIN pcall.args.record = {pw, nm}
        /\ pcall.args.record[pw] = [type |-> "int", repr |-> "42"]
        /\ pcall.out.ret[pw] = MASK_VALUE
        /\ pcall.out.ret[nm] = pcall.args.record[nm]
        /\ pcall.record_after[pw] = [type |-> "int", repr |-> "42"]

(***************************************************************************)
(* Claims about PreviewTokenStore, checked under SpecTokens.               *)
(***************************************************************************)
\* C6: consume of a token made by create(p), while the token's age is at most
\* the TTL, returns p, whatever calls on other tokens came in between; a
\* second consume of the same token returns None.
C6_ConsumeCreateRoundTrip ==
    tcall.op = "consume" =>
        /\ (tcall.before = "active" /\ ~tcall.overdue) =>
              (tcall.ret = tcall.created /\ tcall.ret \in Payloads)
        /\ tcall.before = "consumed" => tcall.ret = None

C6_Witness ==
    /\ tcall.op = "consume"
    /\ tcall.before = "active"
    /\ tcall.ret \in Payloads
    /\ preview_store.ttl = MaxTTL
    /\ now >= MaxTTL
    /\ \E other \in uuids \ {tcall.token} :
          /\ other < tcall.token
          /\ thist[other].state = "consumed"

\* C7: under every interleaving of create, get, consume and clock advances a
\* token is consumed successfully at most once, and never when its age
\* exceeded the TTL at that access; a consumed token is never found expired.
C7_ConsumedAtMostOnce ==
    /\ (tcall.op = "consume" /\ tcall.ret # None) =>
          (tcall.before = "active" /\ ~tcall.overdue)
    /\ (tcall.op \in {"get", "consume"} /\ tcall.found_expired) =>
          (tcall.before = "active" /\ tcall.ret = None)

C7_Witness ==
    /\ tcall.op = "consume"
    /\ tcall.before = "consumed"
    /\ tcall.ret = None
    /\ Cardinality(uuids) = MaxTokens
    /\ \E other \in uuids : thist[other].state = "expired"

\* C8: once a consume has returned a token's payload, or a get or consume has
\* found the token older than the TTL, the token is gone from the store and
\* every later get and consume of it returns None; a token older than the
\* TTL returns None from get and consume even if never consumed.
C8_ConsumedAndExpiredAreTerminal ==
    /\ \A token \in uuids :
          thist[token].state # "active" => token \notin DOMAIN preview_store.store
    /\ tcall.op \in {"get", "consume"} =>
          /\ tcall.before \in {"consumed", "expired"} => tcall.ret = None
          /\ tcall.overdue => tcall.ret = None

C8_Witness ==
    /\ tcall.op = "get"
    /\ tcall.before = "expired"
    /\ tcall.ret = None
    /\ \E other \in uuids \ {tcall.token} : thist[other].state = "active"

\* a step that is a get call, and the token it was given
GetStep == now' = now /\ tcall'.op = "get"

\* C9: get on an active token returns its payload and leaves the store as it
\* was, so that a consume after any number of gets still returns the payload;
\* get removes a token only when it finds its age above the TTL, and never
\* removes or alters another token.
C9_GetIsAPeek ==
    /\ [](  (tcall.op = "consume" /\ tcall.peeked /\ ~tcall.overdue)
            => tcall.ret = tcall.created )
    /\ [][ GetStep =>
             LET token == tcall'.token
                 before == preview_store.store
                 after == preview_store'.store
             IN  /\ preview_store'.ttl = preview_store.ttl
                 /\ DOMAIN after \subseteq DOMAIN before
                 /\ \A other \in DOMAIN before \ {token} :
                       other \in DOMAIN after /\ after[other] = before[other]
                 /\ (Before(token) = "active" /\ ~Overdue(token)) =>
                       (after = before /\ tcall'.ret = thist[token].payload)
                 /\ (token \in DOMAIN before \ DOMAIN after) => Overdue(token)
          ]_vars

C9_Witness ==
    /\ tcall.op = "consume"
    /\ tcall.peeked
    /\ ~tcall.overdue
    /\ tcall.ret \in Payloads
    /\ now > 0

(***************************************************************************)
(* Claims about SeededRecordTracker, checked under SpecTracker.            *)
(***************************************************************************)
\* C10: get(tag) returns one (table, sys_ids) entry per track call made with
\* the tag, in call order, and None for a tag with no track call; a track
\* call leaves the entries of every other tag as they were.
C10_TrackAccumulates ==
    /\ [](  /\ scall.op = "get" =>
                 scall.ret = IF scall.tracked = <<>> THEN None ELSE Some(scall.tracked)
            /\ \A tag \in Tags :
                 IF shist[tag] = <<>> THEN tag \notin DOMAIN seed_tracker
                 ELSE tag \in DOMAIN seed_tracker /\ seed_tracker[tag] = shist[tag] )
    /\ [][ scall'.op = "track" =>
             /\ DOMAIN seed_tracker' = DOMAIN seed_tracker \cup {scall'.tag}
             /\ \A other \in DOMAIN seed_tracker \ {scall'.tag} :
                   seed_tracker'[other] = seed_tracker[other]
          ]_vars

C10_Witness ==
    /\ scall.op = "get"
    /\ scall.tag = "x"
    /\ scall.ret = Some(<< [table |-> "incident", sys_ids |-> <<"a">>],
                           [table |-> "problem", sys_ids |-> <<"b">>] >>)
    /\ "y" \in DOMAIN seed_tracker

\* C11: remove(tag) deletes the whole entry of the tag in one step: get(tag)
\* is None afterwards and no part of the list survives; the entries of every
\* other tag are unchanged; removing an unknown tag changes nothing and
\* raises nothing. A track call made after the remove starts a new list that
\* holds only the new entry.
C11_RemoveDeletesWholeEntry ==
    /\ [][ scall'.op = "remove" =>
             /\ scall'.ret = None
             /\ tracker_get(seed_tracker', scall'.tag).ret = None
             /\ DOMAIN seed_tracker' = DOMAIN seed_tracker \ {scall'.tag}
             /\ \A other \in DOMAIN seed_tracker \ {scall'.tag} :
                   seed_tracker'[other] = seed_tracker[other]
             /\ (scall'.tag \notin DOMAIN seed_tracker => seed_tracker' = seed_tracker)
          ]_vars
    /\ [][ (scall.op = "remove" /\ scall'.op = "track" /\ scall'.tag = scall.tag) =>
             seed_tracker'[scall'.tag] =
                 << shist'[scall'.tag][Len(shist'[scall'.tag])] >>
          ]_vars

C11_Witness ==
    /\ scall.op = "remove"
    /\ scall.tag = "x"
    /\ Len(scall.tracked) = 2
    /\ "x" \notin DOMAIN seed_tracker
    /\ "y" \in DOMAIN seed_tracker

(***************************************************************************)
(* Claims about the investigation dispatcher, checked under                *)
(* SpecInvestigate.                                                        *)
(***************************************************************************)
\* the client calls the tool call of this state made
CallsMade == IF icall.tool = "none" THEN <<>> ELSE icall.calls

IsRead(call) == call.op \in {"get_record", "query_records", "aggregate", "get_metadata"}

\* C13: no tool call issues a read (get_record, query_records, aggregate,
\* get_metadata) against a deny-listed table; investigate_explain with an
\* element id "<deny-listed table>:<id>" and table_health run or explained
\* on a deny-listed table are rejected before any client call on that table.
C13_NoReadOfDeniedTable ==
    \A i \in 1..Len(CallsMade) :
        IsRead(CallsMade[i]) => \A denied \in DENIED_TABLES : CallsMade[i].table # <<denied>>

\* C14: every query sent against a table of settings.large_table_names
\* carries a configured date-field name in its filter (or the request was
\* rejected with QuerySafetyError and nothing was sent); this includes the
\* syslog queries of error_analysis and table_health.
C14_LargeTableQueriesAreDateBounded ==
    \A i \in 1..Len(CallsMade) :
        ( /\ CallsMade[i].op \in {"query_records", "aggregate"}
          /\ \E large \in settings.large_table_names : CallsMade[i].table = <<large>> )
        => has_date_filter(CallsMade[i].arg)

\* run was awaited with a dict that has the parameters the module requires
RunWithRequiredParams ==
    /\ icall.tool = "investigate_run"
    /\ icall.opened
    /\ icall.params.kind \in {"object", "empty"}
    /\ icall.investigation \in {"acl_conflicts", "table_health"} => HasTable(icall.params.value)

FailedReplies == {i \in 1..Len(icall.replies) : ~icall.replies[i].ok}

\* C16: when run has its required parameters and one of its sub-queries
\* fails with a transport error, run does not raise, every sub-query is
\* still executed, and the findings are those of the other sub-queries
\* (the findings run gives when the failing query finds nothing).
C16_FailingSubQueryIsSkipped ==
    (RunWithRequiredParams /\ Cardinality(FailedReplies) = 1) =>
        LET failing == CHOOSE i \in FailedReplies : TRUE
            others == [icall.replies EXCEPT ![failing] = Ok(<<>>)]
            rest == module_run(icall.investigation, icall.params.value, others)
        IN  /\ icall.result.raised = ""
            /\ icall.calls = module_calls(icall.investigation, icall.params.value)
            /\ icall.result.ret.findings = rest.ret.findings

\* C17: investigate_run and investigate_explain given a name that is not
\* registered return an error envelope that lists every registered name,
\* without parsing params, entering a client or making a client call; the
\* names that are registered are the same seven in every state.
C17_UnknownInvestigation ==
    icall.tool # "none" =>
        LET seven == { "stale_automations", "deprecated_apis", "table_health",
                       "acl_conflicts", "error_analysis", "slow_transactions",
                       "performance_bottlenecks" }
            unknown == /\ icall.out.status = "error"
                       /\ icall.out.data = None
                       /\ icall.out.error =
                            Some([message |-> "Unknown investigation",
                                  name |-> icall.investigation, available |-> seven])
        IN  /\ icall.investigation \notin seven <=> unknown
            /\ unknown => /\ ~icall.parsed
                          /\ ~icall.opened
                          /\ icall.calls = <<>>
                          /\ icall.escaped = ""

C17_Witness ==
    /\ icall.tool = "investigate_run"
    /\ icall.investigation = "table_healt"
    /\ icall.params.kind = "malformed"
    /\ icall.out.status = "error"
    /\ icall.calls = <<>>

\* C19: acl_conflicts.run and table_health.run called without a table (the
\* key absent or its value empty) return a result with an error field,
\* finding_count 0 and no findings, raise nothing and make no client call;
\* the tool hands that result to the caller.
C19_MissingTableIsReported ==
    ( /\ icall.tool = "investigate_run"
      /\ icall.investigation \in {"acl_conflicts", "table_health"}
      /\ icall.params.kind \in {"object", "empty"}
      /\ \/ "table" \notin DOMAIN icall.params.value
         \/ icall.params.value.table = "" )
    => /\ icall.result.raised = ""
       /\ "error" \in DOMAIN icall.result.ret
       /\ icall.result.ret.error = "Missing required parameter: table"
       /\ icall.result.ret.finding_count = 0
       /\ icall.result.ret.findings = <<>>
       /\ icall.calls = <<>>
       /\ icall.escaped = ""
       /\ icall.out.data = icall.result.ret

C19_Witness ==
    /\ icall.tool = "investigate_run"
    /\ icall.investigation = "table_health"
    /\ icall.params = JsonText("object", [table |-> ""])
    /\ icall.out.status = "success"
    /\ icall.out.data.finding_count = 0

\* the names that at least two of the ACLs carry with differing conditions
ConflictingNames(acls) ==
    { n \in {acls[i].name : i \in 1..Len(acls)} :
        \E i, j \in 1..Len(acls) :
            acls[i].name = n /\ acls[j].name = n /\ acls[i].condition # acls[j].condition }

\* C20: acl_conflicts.run emits exactly one finding for each name that at
\* least two fetched ACLs carry with differing conditions, with count the
\* number of ACLs of that name and all of them listed, and no finding for
\* any other name.
C20_OneFindingPerConflictingGroup ==
    ( /\ icall.tool = "investigate_run"
      /\ icall.investigation = "acl_conflicts"
      /\ icall.out.status = "success"
      /\ "error" \notin DOMAIN icall.out.data )
    => LET acls == icall.replies[1].records
           findings == icall.out.data.findings
       IN  /\ {findings[i].name : i \in 1..Len(findings)} = ConflictingNames(acls)
           /\ Len(findings) = Cardinality(ConflictingNames(acls))
           /\ icall.out.data.finding_count = Len(findings)
           /\ \A i \in 1..Len(findings) :
                LET members == Group(acls, "name", findings[i].name)
                IN  /\ findings[i].count = Len(members)
                    /\ findings[i].acls =
                         [j \in 1..Len(members) |->
                            [sys_id |-> members[j].sys_id, condition |-> members[j].condition]]


(***************************************************************************)
(* Claims about the developer tools, checked under SpecDev.                *)
(***************************************************************************)
IsApply(r) == dev[r].pc # "free" /\ dev[r].tool = "table_apply_update"

\* the update_record calls that apply requests made for a token
UpdatesFor(token) ==
    {i \in 1..Len(remote) : /\ remote[i].op = "update_record"
                            /\ IsApply(remote[i].by)
                            /\ dev[remote[i].by].args.preview_token = token}

\* the preview request that handed the token out
IssuedBy(q, token) ==
    /\ dev[q].pc = "done"
    /\ dev[q].tool = "table_preview_update"
    /\ dev[q].out.status = "success"
    /\ dev[q].out.data.token = token

StillValid(token) ==
    /\ token \in DOMAIN preview_store.store
    /\ now - preview_store.store[token].created_at <= preview_store.ttl

InvalidToken ==
    [status |-> "error", data |-> None,
     error |-> Some([message |-> "Invalid or expired preview token"])]

\* C12: for every token handed out by table_preview_update, over every
\* order and interleaving of table_apply_update calls, an apply made while
\* the token is still valid sends exactly one update_record carrying the
\* previewed table, sys_id and changes; every other apply of that token
\* (after expiry, repeated, or concurrent) and every apply of an unknown
\* token returns 'Invalid or expired preview token' and sends nothing, so
\* no token is ever written more than once.
C12_ApplyWritesExactlyOnce ==
    /\ [](\A token \in {0} \cup uuids :
            /\ Cardinality(UpdatesFor(token)) <= 1
            /\ \A i \in UpdatesFor(token) :
                 \E q \in Requests :
                    /\ IssuedBy(q, token)
                    /\ remote[i].table = dev[q].args.table
                    /\ remote[i].sys_id = dev[q].args.sys_id
                    /\ remote[i].data = dev[q].args.changes.value)
    /\ [][\A r \in Requests :
            (dev[r].pc = "free" /\ dev'[r].pc # "free"
                /\ dev'[r].tool = "table_apply_update")
            => IF StillValid(dev'[r].args.preview_token)
               THEN /\ Len(remote') = Len(remote) + 1
                    /\ SubSeq(remote', 1, Len(remote)) = remote
                    /\ remote'[Len(remote')].op = "update_record"
                    /\ remote'[Len(remote')].by = r
                    /\ dev'[r].pc = "await"
               ELSE /\ remote' = remote
                    /\ dev'[r].pc = "done"
                    /\ dev'[r].out = InvalidToken]_vars

\* a token whose first apply is still waiting for its update_record while a
\* second apply of the same token has already been refused
C12_Witness ==
    \E token \in uuids, r1, r2 \in Requests :
        /\ r1 < r2
        /\ IsApply(r1) /\ dev[r1].pc = "await" /\ dev[r1].args.preview_token = token
        /\ IsApply(r2) /\ dev[r2].pc = "done" /\ dev[r2].args.preview_token = token
        /\ dev[r2].out = InvalidToken
        /\ Cardinality(UpdatesFor(token)) = 1


WriteOps == {"create_record", "update_record", "delete_record"}

GatedTools == {"dev_toggle", "dev_set_property", "dev_seed_test_data", "table_preview_update"}

SentBy(r) == {i \in 1..Len(remote) : remote[i].by = r}

\* C15: when settings.is_production is true, no sequence of developer tool
\* calls sends a create_record, update_record or delete_record; every
\* write-gated tool returns an error envelope without a client call, the
\* preview store never holds a token and the tracker never holds a tag, so
\* table_apply_update and dev_cleanup return their not-found error without
\* a client call.
C15_ProductionBlocksWrites ==
    is_production(settings) =>
        /\ \A i \in 1..Len(remote) : remote[i].op \notin WriteOps
        /\ DOMAIN preview_store.store = {}
        /\ DOMAIN seed_tracker = {}
        /\ \A r \in Requests :
            dev[r].pc # "free" =>
                /\ dev[r].pc = "done"
                /\ dev[r].out.status = "error"
                /\ SentBy(r) = {}
                /\ dev[r].tool \in GatedTools /\ dev[r].tool # "dev_toggle"
                      => dev[r].out = WriteBlocked
                /\ dev[r].tool = "table_apply_update" => dev[r].out = InvalidToken
                /\ dev[r].tool = "dev_cleanup"
                      => dev[r].out.error = str("No records found for tag")

\* a production server on which a seed, an apply and a cleanup have returned
C15_Witness ==
    /\ is_production(settings)
    /\ \E r1, r2, r3 \in Requests :
        /\ dev[r1].pc = "done" /\ dev[r1].tool = "dev_seed_test_data"
        /\ dev[r1].out = WriteBlocked
        /\ dev[r2].pc = "done" /\ dev[r2].tool = "table_apply_update"
        /\ dev[r3].pc = "done" /\ dev[r3].tool = "dev_cleanup"


(***************************************************************************)
(* Claims about every tool entry point, checked under SpecTools.           *)
(***************************************************************************)
EnvelopeStatuses == {"success", "error"}

\* C18: investigate_run, investigate_explain, dev_seed_test_data,
\* dev_cleanup, table_preview_update and table_apply_update return an
\* envelope whose status is 'success' or 'error' for every input and every
\* remote failure, an element_id without a colon included, and no
\* exception leaves them; an exception raised inside the tool, malformed
\* JSON in params, changes or records among them, gives status 'error'.
C18_EveryToolReturnsAnEnvelope ==
    /\ icall.tool # "none" =>
        /\ icall.escaped = ""
        /\ icall.out.status \in EnvelopeStatuses
        /\ icall.result.raised # "" => icall.out.status = "error"
        /\ (icall.investigation \in INVESTIGATION_REGISTRY /\ icall.params.kind = "malformed")
              => icall.out.status = "error"
    /\ \A r \in Requests :
        dev[r].pc = "done" =>
            /\ dev[r].escaped = ""
            /\ dev[r].out.status \in EnvelopeStatuses
            /\ (dev[r].tool = "table_preview_update" /\ dev[r].args.changes.kind = "malformed")
                  => dev[r].out.status = "error"
            /\ (dev[r].tool = "dev_seed_test_data" /\ dev[r].args.records.kind = "malformed")
                  => dev[r].out.status = "error"

\* a dispatcher call whose params are not JSON has returned an error envelope
C18_Witness ==
    /\ icall.tool = "investigate_run"
    /\ icall.investigation \in INVESTIGATION_REGISTRY
    /\ icall.params.kind = "malformed"
    /\ icall.escaped = ""
    /\ icall.out.status = "error"


(***************************************************************************)
(* Claims about the results of the investigation modules, checked under    *)
(* SpecInvestigate.                                                        *)
(***************************************************************************)
\* investigate_run of the module returned the module's result
RanModule(investigation) ==
    /\ icall.tool = "investigate_run"
    /\ icall.investigation = investigation
    /\ icall.out.status = "success"

RECURSIVE SeqSum(_)
SeqSum(s) == IF s = <<>> THEN 0 ELSE Head(s) + SeqSum(Tail(s))

\* C21: error_analysis.run returns exactly one finding per distinct source
\* among the fetched log entries, ordered by non-increasing frequency; a
\* finding's frequency is the number of entries of its source, first_seen
\* the least and last_seen the greatest timestamp of those entries,
\* sample_messages holds at most 3 messages, and the frequencies sum to
\* total_errors; for the entries A@1, A@2, B@3 there are 2 findings, the
\* first for source A with frequency 2.
C21_ErrorClusters ==
    RanModule("error_analysis") =>
        LET logs == icall.replies[1].records
            result == icall.out.data
            findings == result.findings
            of(src) == {i \in 1..Len(logs) : logs[i].source = src}
        IN  /\ result.total_errors = Len(logs)
            /\ {findings[k].source : k \in 1..Len(findings)}
                  = {logs[i].source : i \in 1..Len(logs)}
            /\ Len(findings) = Cardinality({logs[i].source : i \in 1..Len(logs)})
            /\ \A k \in 1..Len(findings) :
                /\ findings[k].frequency = Cardinality(of(findings[k].source))
                /\ \A i \in of(findings[k].source) :
                     /\ findings[k].first_seen <= logs[i].sys_created_on
                     /\ findings[k].last_seen >= logs[i].sys_created_on
                /\ \E i \in of(findings[k].source) :
                     findings[k].first_seen = logs[i].sys_created_on
                /\ \E i \in of(findings[k].source) :
                     findings[k].last_seen = logs[i].sys_created_on
                /\ Len(findings[k].sample_messages) <= 3
                /\ k > 1 => findings[k - 1].frequency >= findings[k].frequency
            /\ SeqSum([k \in 1..Len(findings) |-> findings[k].frequency]) = result.total_errors
            /\ [i \in 1..Len(logs) |-> <<logs[i].source, logs[i].sys_created_on>>]
                     = << <<"A", 1>>, <<"A", 2>>, <<"B", 3>> >>
                  => /\ Len(findings) = 2
                     /\ findings[1].source = "A"
                     /\ findings[1].frequency = 2

\* the less frequent source comes first in the response, and the more
\* frequent one has more than three entries
C21_Witness ==
    /\ RanModule("error_analysis")
    /\ Len(icall.replies[1].records) = 4
    /\ icall.replies[1].records[1].source = "B"
    /\ Len(icall.out.data.findings) = 2
    /\ icall.out.data.findings[1].source = "A"
    /\ icall.out.data.findings[1].frequency = 3
    /\ icall.out.data.findings[1].first_seen = 1
    /\ icall.out.data.findings[1].last_seen = 5


\* C27: performance_bottlenecks.run reports a heavy_automation finding for
\* a table if and only if more than 10 of the fetched active business rules
\* belong to it (a table with exactly 10 gets none), with br_count equal to
\* that number, whatever the limit parameter is; and it reports one
\* long_running_flow finding for each fetched IN_PROGRESS flow.
C27_HeavyAutomationThreshold ==
    RanModule("performance_bottlenecks") =>
        LET rules == icall.replies[1].records
            flows == icall.replies[3].records
            findings == icall.out.data.findings
            owned(table) == Cardinality({i \in 1..Len(rules) : rules[i].collection = table})
            heavy == {k \in 1..Len(findings) : findings[k].category = "heavy_automation"}
        IN  /\ \A i \in 1..Len(rules) :
                 owned(rules[i].collection) > 10
                    <=> \E k \in heavy : findings[k].name = rules[i].collection
            /\ \A k \in heavy :
                 /\ findings[k].br_count = owned(findings[k].name)
                 /\ findings[k].br_count > 10
            /\ Cardinality({k \in 1..Len(findings) :
                               findings[k].category = "long_running_flow"}) = Len(flows)


\* investigate_run was given a JSON object (or nothing) as params
RunOf(investigation) ==
    /\ icall.tool = "investigate_run"
    /\ icall.investigation = investigation
    /\ icall.params.kind \in {"object", "empty"}

\* the findings expected of a loop over items whose i-th call got replies[i]:
\* the items of the calls that succeeded, one per returned record, in order
Surviving(items, replies) ==
    Flatten([i \in 1..Len(items) |->
                IF replies[i].ok THEN [j \in 1..Len(replies[i].records) |-> items[i]]
                ELSE <<>>])

\* C28: in deprecated_apis.run and slow_transactions.run every pattern
\* (every table whose category passes the categories filter) is attempted
\* exactly once in list order; a failing search or query is swallowed,
\* adds no finding, keeps the earlier findings and does not stop the later
\* ones; findings come in list order and a slow_transactions finding
\* carries its table and that table's category.
C28_LoopIterationsAreIsolated ==
    /\ RunOf("deprecated_apis") =>
        LET findings == icall.out.data.findings
        IN  /\ icall.out.status = "success"
            /\ Len(icall.calls) = Len(DEPRECATED_PATTERNS)
            /\ \A i \in 1..Len(icall.calls) :
                 /\ icall.calls[i].op = "code_search"
                 /\ icall.calls[i].arg = DEPRECATED_PATTERNS[i]
            /\ [k \in 1..Len(findings) |-> findings[k].pattern]
                  = Surviving(DEPRECATED_PATTERNS, icall.replies)
    /\ RunOf("slow_transactions") =>
        LET findings == icall.out.data.findings
            params == icall.params.value
            passes(category) ==
                \/ "categories" \notin DOMAIN params
                \/ params.categories = <<>>
                \/ \E c \in 1..Len(params.categories) : params.categories[c] = category
            attempted == SelectSeq(PERFORMANCE_TABLES, LAMBDA tc : passes(tc[2]))
        IN  /\ icall.out.status = "success"
            /\ Len(icall.calls) = Len(attempted)
            /\ \A i \in 1..Len(icall.calls) :
                 /\ icall.calls[i].op = "query_records"
                 /\ icall.calls[i].table = <<attempted[i][1]>>
            /\ [k \in 1..Len(findings) |-> <<findings[k].table, findings[k].category>>]
                  = Surviving(attempted, icall.replies)

\* the second of the seven pattern tables failed and the other six were
\* still queried and reported
C28_Witness ==
    /\ RunOf("slow_transactions")
    /\ Len(icall.calls) = 7
    /\ ~icall.replies[2].ok
    /\ \A i \in {1, 3, 4, 5, 6, 7} : icall.replies[i].ok
    /\ Len(icall.out.data.findings) = 6
    /\ icall.out.data.findings[2].table = "sys_script_pattern"
    /\ icall.out.data.findings[6].category = "cancelled_transaction"


\* C29: every finding of every module's run carries an element_id, and
\* that module's explain, given the element_id, re-fetches through the
\* client exactly what the finding names: for "<table>:<id>", split at the
\* first colon, the record <id> of <table>; for a bare table name, the
\* table.
C29_ElementIdRoundTrip ==
    \A investigation \in INVESTIGATION_REGISTRY :
        RanModule(investigation) =>
            \A k \in 1..Len(icall.out.data.findings) :
                LET finding == icall.out.data.findings[k]
                IN  /\ "element_id" \in DOMAIN finding
                    /\ LET element_id == finding.element_id
                           fetched == module_explain(investigation, element_id,
                                          <<Ok(<<OneRecord>>), Ok(<<OneRecord>>)>>)
                       IN  /\ fetched.raised = ""
                           /\ IF Len(element_id) = 3 /\ element_id[2] = ":"
                              THEN fetched.calls
                                     = <<ClientCall("get_record", <<element_id[1]>>,
                                                    <<element_id[3]>>)>>
                              ELSE /\ Len(element_id) = 1
                                   /\ fetched.calls[1].op = "aggregate"
                                   /\ fetched.calls[1].table = element_id


\* C30: in the result of every module's run, for every input and every
\* response of the instance, finding_count is the length of the findings
\* list (0 with an empty list in the missing-parameter error result), and
\* for table_health it is also the number of health indicators, at most 3.
C30_FindingCountIsLength ==
    \A investigation \in INVESTIGATION_REGISTRY :
        RanModule(investigation) =>
            LET result == icall.out.data
            IN  /\ result.finding_count = Len(result.findings)
                /\ "error" \in DOMAIN result =>
                     result.finding_count = 0 /\ result.findings = <<>>
                /\ (investigation = "table_health" /\ "error" \notin DOMAIN result) =>
                     /\ result.finding_count = Len(result.health_indicators)
                     /\ result.finding_count <= 3

\* a table_health run that raised all three of its health indicators
C30_Witness ==
    /\ RanModule("table_health")
    /\ "error" \notin DOMAIN icall.out.data
    /\ Len(icall.out.data.health_indicators) = 3
    /\ icall.out.data.finding_count = 3


(***************************************************************************)
(* Claims about seeding, cleanup and apply, checked under SpecDev.         *)
(***************************************************************************)
IsDone(r, tool) == dev[r].pc = "done" /\ dev[r].tool = tool

Succeeded(r) == dev[r].out.status = "success"

\* the create_record calls of a seed call that the instance answered: all
\* of them when the call succeeded, all but the last when it failed
CreatedBy(r) ==
    LET sent == {i \in SentBy(r) : remote[i].op = "create_record"}
    IN  IF Succeeded(r) THEN sent ELSE {i \in sent : \E j \in sent : j > i}

\* delete_record has been called for the record
DeleteSent(table, sys_id) ==
    \E j \in 1..Len(remote) :
        remote[j].op = "delete_record" /\ remote[j].table = table /\ remote[j].sys_id = sys_id

TrackedUnder(tag, table, sys_id) ==
    /\ tag \in DOMAIN seed_tracker
    /\ \E e \in 1..Len(seed_tracker[tag]) :
        /\ seed_tracker[tag][e].table = table
        /\ \E k \in 1..Len(seed_tracker[tag][e].sys_ids) :
              seed_tracker[tag][e].sys_ids[k] = sys_id

\* C22: after any sequence of dev_seed_test_data calls, successful or
\* failed, every record a seed call created through the client is tracked
\* in the ledger (under the call's tag) until a cleanup deletes it; a
\* successful call returns the created ids in creation order, with
\* created_count their number, and tracks exactly those ids.
C22_SeededRecordsAreTracked ==
    \A r \in Requests :
        IsDone(r, "dev_seed_test_data") =>
            /\ \A i \in CreatedBy(r) :
                 \/ \E tag \in DOMAIN seed_tracker :
                       TrackedUnder(tag, remote[i].table, remote[i].sys_id)
                 \/ DeleteSent(remote[i].table, remote[i].sys_id)
            /\ Succeeded(r) =>
                 LET data == dev[r].out.data
                 IN  /\ data.created_count = Len(data.sys_ids)
                     /\ {data.sys_ids[k] : k \in 1..Len(data.sys_ids)}
                           = {remote[i].sys_id : i \in CreatedBy(r)}
                     /\ \A k \in 1..Len(data.sys_ids) :
                          \/ TrackedUnder(data.tag, data.table, data.sys_ids[k])
                          \/ DeleteSent(data.table, data.sys_ids[k])


\* C23: under every interleaving of dev_seed_test_data and dev_cleanup
\* calls on one tag, the ledger entry of the tag is removed only after
\* delete_record has been called for every record tracked under the tag at
\* the moment of removal: no tracked record leaves the ledger undeleted.
C23_RemovedOnlyAfterDeleted ==
    [][\A tag \in DOMAIN seed_tracker :
          tag \notin DOMAIN seed_tracker' =>
             \A e \in 1..Len(seed_tracker[tag]) :
                \A k \in 1..Len(seed_tracker[tag][e].sys_ids) :
                   DeleteSent(seed_tracker[tag][e].table, seed_tracker[tag][e].sys_ids[k])]_vars


\* the delete_record calls of request r, in the order they were sent
DeletesBy(log, r) ==
    LET IsDelete(c) == c.by = r /\ c.op = "delete_record"
        S == SelectSeq(log, IsDelete)
    IN  [i \in 1..Len(S) |-> [table |-> S[i].table, sys_id |-> S[i].sys_id]]

\* every tracked record of the tag, entry after entry
Tracked(self, tag) ==
    Flatten([e \in 1..Len(self[tag]) |->
        [k \in 1..Len(self[tag][e].sys_ids) |->
            [table |-> self[tag][e].table, sys_id |-> self[tag][e].sys_ids[k]]]])

\* C24: dev_cleanup(tag) is all-or-nothing on the ledger. A call for an
\* unknown tag returns the 'No records found' error with no remote call. A
\* call for a known tag reads the tracked records when it starts; when it
\* succeeds it has passed each of them to delete_record exactly once, in
\* ledger order, deleted_count is their number and the tag is absent
\* afterwards; when a delete fails it returns an error envelope. No step of
\* the call other than its successful end changes the ledger.
C24_CleanupIsAllOrNothing ==
    [][\A r \in Requests :
          /\ (dev[r].pc = "free" /\ dev'[r].pc # "free" /\ dev'[r].tool = "dev_cleanup") =>
                LET tag == dev'[r].args.tag
                IN  /\ seed_tracker' = seed_tracker
                    /\ IF tag \notin DOMAIN seed_tracker
                       THEN /\ dev'[r].pc = "done"
                            /\ dev'[r].out.status = "error"
                            /\ dev'[r].out.error = str("No records found for tag")
                            /\ remote' = remote
                       ELSE /\ dev'[r].pc = "await"
                            /\ dev'[r].loc.todo = Tracked(seed_tracker, tag)
                            /\ DeletesBy(remote', r) = SubSeq(dev'[r].loc.todo, 1, 1)
          /\ (Resumes(r, "dev_cleanup") /\ dev'[r] # dev[r]) =>
                LET tag == dev[r].args.tag
                    todo == dev[r].loc.todo
                IN  \/ /\ dev'[r].pc = "await"
                       /\ dev'[r].loc.todo = todo
                       /\ seed_tracker' = seed_tracker
                       /\ DeletesBy(remote', r) = SubSeq(todo, 1, Len(DeletesBy(remote, r)) + 1)
                    \/ /\ dev'[r].pc = "done"
                       /\ dev'[r].out.status = "error"
                       /\ seed_tracker' = seed_tracker
                       /\ remote' = remote
                    \/ /\ dev'[r].pc = "done"
                       /\ dev'[r].out.status = "success"
                       /\ DeletesBy(remote', r) = todo
                       /\ Cardinality({todo[i] : i \in 1..Len(todo)}) = Len(todo)
                       /\ dev'[r].out.data.deleted_count = Len(todo)
                       /\ tag \notin DOMAIN seed_tracker']_vars

C24_Witness ==
    \E r \in Requests, q \in Requests :
        /\ IsDone(r, "dev_cleanup") /\ Succeeded(r)
        /\ dev[r].out.data.deleted_count = 2
        /\ Len(DeletesBy(remote, r)) = 2
        /\ dev[r].args.tag \notin DOMAIN seed_tracker
        /\ IsDone(q, "dev_cleanup") /\ q > r
        /\ dev[q].args.tag = dev[r].args.tag
        /\ dev[q].out.status = "error"
        /\ DeletesBy(remote, q) = <<>>


\* C25: no sequence of developer tool calls, in any environment, sends a
\* create_record, update_record or delete_record for a deny-listed table:
\* every payload held under a preview token and every entry of the seed
\* ledger names a table for which can_write holds, so table_apply_update
\* and dev_cleanup, which do not consult the policy, never write to a
\* deny-listed table.
C25_NoWriteToDeniedTable ==
    /\ \A i \in 1..Len(remote) :
          remote[i].op \in WriteOps => remote[i].table \notin DENIED_TABLES
    /\ \A token \in DOMAIN preview_store.store :
          LET table == preview_store.store[token].payload.table
          IN  table \notin DENIED_TABLES /\ can_write(table, settings, FALSE)
    /\ \A tag \in DOMAIN seed_tracker :
          \A e \in 1..Len(seed_tracker[tag]) :
             LET table == seed_tracker[tag][e].table
             IN  table \notin DENIED_TABLES /\ can_write(table, settings, FALSE)

\* outside production a preview and a seed of a deny-listed table were both
\* refused, and a write to an ordinary table was sent
C25_Witness ==
    /\ ~is_production(settings)
    /\ \E r \in Requests :
          /\ IsDone(r, "table_preview_update")
          /\ dev[r].args.table \in DENIED_TABLES
          /\ dev[r].out = WriteBlocked
          /\ SentBy(r) = {}
    /\ \E r \in Requests :
          /\ IsDone(r, "dev_seed_test_data")
          /\ dev[r].args.table \in DENIED_TABLES
          /\ dev[r].out = WriteBlocked
          /\ SentBy(r) = {}
    /\ \E i \in 1..Len(remote) : remote[i].op \in WriteOps


\* request r is an apply call that got as far as sending its update_record
AppliedBy(r) ==
    IsApply(r) /\ \E i \in SentBy(r) : remote[i].op = "update_record"

\* C26: table_apply_update consumes the token before it attempts the remote
\* update and never restores it: from the moment the update_record is sent
\* the token is out of the store, whatever the instance answers; when the
\* update fails the call returns an error envelope, and every other
\* table_apply_update with the same token returns 'Invalid or expired
\* preview token' and sends no update.
C26_FailedApplyKeepsTokenConsumed ==
    /\ [](\A r \in Requests :
            AppliedBy(r) =>
               LET token == dev[r].args.preview_token
               IN  /\ token \notin DOMAIN preview_store.store
                   /\ \A q \in Requests \ {r} :
                         (IsApply(q) /\ dev[q].args.preview_token = token) =>
                            /\ dev[q].pc = "done"
                            /\ dev[q].out = InvalidToken
                            /\ SentBy(q) = {})
    /\ [][\A r \in Requests :
            (Resumes(r, "table_apply_update") /\ dev'[r] # dev[r]) =>
               /\ preview_store' = preview_store
               /\ remote' = remote
               /\ dev'[r].pc = "done"
               /\ dev'[r].out.status \in {"success", "error"}
               /\ dev'[r].out.status = "error" =>
                     dev'[r].out.error = str("ServerError") /\ dev'[r].out.data = None]_vars

\* an apply whose update_record failed, followed by a second apply of the
\* same token that was refused
C26_Witness ==
    \E r, q \in Requests :
        /\ r < q
        /\ AppliedBy(r) /\ dev[r].pc = "done" /\ dev[r].out.status = "error"
        /\ IsApply(q) /\ dev[q].args.preview_token = dev[r].args.preview_token
        /\ dev[q].out = InvalidToken
        /\ SentBy(q) = {}

====
